---------------------------- MODULE Spec2Model ----------------------------
(***************************************************************************)
(* Model of the MDG-UBO-Tool ownership engine:                             *)
(*   - the ARES VR registry client with its SQLite cache                   *)
(*     (src/ares_vr_client.py),                                            *)
(*   - the owner extractor (src/ares_vr_extract.py),                       *)
(*   - the recursive tree resolver (src/ownership_resolve_online.py),      *)
(*   - the effective-share aggregation and the UBO determination           *)
(*     (src/app.py).                                                       *)
(*                                                                         *)
(* Conventions.  Python's None is the empty sequence <<>> and a present    *)
(* value v is <<v>>.  Floating-point shares are exact rationals <<n, d>>   *)
(* (d > 0, lowest terms), without the rounding error of binary floats;     *)
(* the UBO threshold tests, strict comparisons of sums, are computed in    *)
(* IEEE-754 binary64 as Python computes them.                              *)
(* A string that the code inspects character by character (a registry ID)  *)
(* is a sequence of one-character strings.                                 *)
(***************************************************************************)
EXTENDS Integers, Sequences, FiniteSets, TLC

VARIABLES
    \* ---- AresVrClient (src/ares_vr_client.py) ----
    ares_vr_cache,      \* the table ares_vr_cache: a set of rows
    last_request_ts,    \* self._last_request_ts
    now,                \* the wall clock, in ticks
    cl_pc,              \* "idle" | "request": position inside get_vr
    cl_call,            \* the get_vr call in progress
    cl_hist,            \* completed get_vr calls, oldest first
    \* ---- extract_current_owners (src/ares_vr_extract.py) ----
    ex_payload,         \* the registry payload handed to the extractor
    ex_out,             \* None, or Some of what the extractor returned
    \* ---- resolve_tree_online and compute_effective_persons ----
    wk_world,           \* what the registry holds, and manual_overrides
    wk_stack,           \* pending work of walk(): calls and owner loops
    wk_lines,           \* lines: the trace, a sequence of NodeLine
    wk_warnings,        \* warnings
    wk_persons,         \* None, or Some of compute_effective_persons(lines)
    wk_runs,            \* what the earlier calls of resolve_tree_online returned
    \* ---- the UBO form and its evaluation (src/app.py) ----
    ub_form,            \* what the user entered: persons, block, threshold
    ub_pc,              \* "idle" | "form" | "loop" | "block" | "done"
    ub_i,               \* position of the loop over final_persons
    ub_final,           \* final_persons, in insertion order
    ub_ubo,             \* ubo, in insertion order
    ub_reasons,         \* reasons, in insertion order
    \* ---- the share-text parsers, called on their own ----
    pt_text,            \* the text s handed to the parsers
    pt_out,             \* None, or Some of what the two parsers returned
    \* ---- the comparison of person names with the ESM extract (src/app.py) ----
    nm_ours,            \* final_persons.keys(): the names of our evaluation
    nm_esm,             \* the names of esm_owners_pdf
    nm_out,             \* None, or Some of [missing_in_esm, extra_in_esm]
    \* ---- build_graphviz_from_nodelines_bfs (src/graphviz_render.py) ----
    gv_graph,           \* None, or Some of the graph: its nodes and its edges
    \* ---- get_vr calls running at the same time on one cache file ----
    cc_procs,           \* the calls in progress, one per thread or process
    cc_writes,          \* what each _cache_put handed to the database, oldest first
    \* ---- collect_subgraph_company_icos / collect_subgraph_for_company ----
    sg_in,              \* the ownership_edge table, the roots, max_depth, which function
    sg_stack,           \* pending work of dfs(): calls and owner loops
    sg_visited,         \* visited
    sg_companies,       \* companies
    sg_missing          \* missing

clientVars == <<ares_vr_cache, last_request_ts, now, cl_pc, cl_call, cl_hist>>
extractVars == <<ex_payload, ex_out>>
walkVars == <<wk_world, wk_stack, wk_lines, wk_warnings, wk_persons, wk_runs>>

uboVars == <<ub_form, ub_pc, ub_i, ub_final, ub_ubo, ub_reasons>>

parseVars == <<pt_text, pt_out>>

nameVars == <<nm_ours, nm_esm, nm_out>>

graphVars == <<gv_graph>>

concVars == <<cc_procs, cc_writes>>

seedVars == <<sg_in, sg_stack, sg_visited, sg_companies, sg_missing>>

vars == <<clientVars, extractVars, walkVars, uboVars, parseVars, nameVars,
          graphVars, concVars, seedVars>>

(***************************************************************************)
(* Bounds of the model.                                                    *)
(***************************************************************************)
MaxCalls == 2           \* get_vr calls per behaviour
MaxRetries == 1         \* AresClientConfig.max_retries used by the model
MaxMembers == 2         \* members of one member group in an extractor input
MaxDepth == 6           \* max_depth handed to resolve_tree_online

(***************************************************************************)
(* Option values and exact rationals.                                      *)
(***************************************************************************)
None == <<>>
Some(x) == <<x>>
IsNone(o) == o = <<>>
IsSome(o) == o # <<>>
The(o) == o[1]

\* the parts of the program a specification does not exercise stay idle
ExtractIdle == ex_payload = <<>> /\ ex_out = <<>>
WalkIdle ==
    /\ wk_world = <<>> /\ wk_stack = <<>> /\ wk_lines = <<>>
    /\ wk_warnings = <<>> /\ wk_persons = <<>> /\ wk_runs = <<>>
UboIdle ==
    /\ ub_form = <<>> /\ ub_pc = "idle" /\ ub_i = 0
    /\ ub_final = <<>> /\ ub_ubo = <<>> /\ ub_reasons = <<>>
ParseIdle == pt_text = <<>> /\ pt_out = <<>>
NameIdle == nm_ours = <<>> /\ nm_esm = <<>> /\ nm_out = <<>>
GraphIdle == gv_graph = <<>>
ConcIdle == cc_procs = <<>> /\ cc_writes = <<>>
SeedIdle ==
    /\ sg_in = <<>> /\ sg_stack = <<>>
    /\ sg_visited = {} /\ sg_companies = {} /\ sg_missing = {}
OthersIdle == GraphIdle /\ ConcIdle /\ SeedIdle

Min(a, b) == IF a <= b THEN a ELSE b
Max(a, b) == IF a >= b THEN a ELSE b
Abs(a) == IF a < 0 THEN -a ELSE a

RECURSIVE Gcd(_, _)
Gcd(a, b) == IF b = 0 THEN a ELSE Gcd(b, a % b)

RECURSIVE Pow2(_)
Pow2(n) == IF n = 0 THEN 1 ELSE 2 * Pow2(n - 1)

RECURSIVE Pow10(_)
Pow10(n) == IF n = 0 THEN 1 ELSE 10 * Pow10(n - 1)

Rat(n, d) == LET g == Gcd(Abs(n), Abs(d))
             IN  IF d < 0 THEN <<(0 - n) \div g, (0 - d) \div g>>
                 ELSE <<n \div g, d \div g>>
RZero == <<0, 1>>
ROne == <<1, 1>>
RInt(n) == <<n, 1>>
RAdd(a, b) == Rat(a[1] * b[2] + b[1] * a[2], a[2] * b[2])
RMul(a, b) == Rat(a[1] * b[1], a[2] * b[2])
RDiv(a, b) == Rat(a[1] * b[2], a[2] * b[1])
RLt(a, b) == a[1] * b[2] < b[1] * a[2]
RLe(a, b) == a[1] * b[2] <= b[1] * a[2]
RMin(a, b) == IF RLe(a, b) THEN a ELSE b
RMax(a, b) == IF RLe(a, b) THEN b ELSE a
\* max(0.0, min(hi, x))
RClamp(x, hi) == RMax(RZero, RMin(hi, x))
RHundred == <<100, 1>>

RECURSIVE SeqSum(_)
SeqSum(s) == IF s = <<>> THEN RZero ELSE RAdd(Head(s), SeqSum(Tail(s)))

Range(s) == {s[i] : i \in DOMAIN s}

(***************************************************************************)
(* Registry IDs as character sequences.                                    *)
(***************************************************************************)
DigitChars == {"0", "1", "2", "3", "4", "5", "6", "7", "8", "9"}
IsDigit(c) == c \in DigitChars
Rep(c, n) == [i \in 1..n |-> c]
\* str.zfill(w) on a string without a sign
ZFill(s, w) == IF Len(s) >= w THEN s ELSE Rep("0", w - Len(s)) \o s

norm_ico_nopad(s) == SelectSeq(s, IsDigit)
\* src/ares_vr_client.py norm_ico
norm_ico(s) ==
    LET digits == SelectSeq(s, IsDigit)
    IN  IF Len(digits) = 7 THEN <<"0">> \o digits ELSE digits

\* src/ares_vr_extract.py _normalize_ico; the argument is an Option
_normalize_ico_nofill(ico) ==
    IF IsNone(ico) \/ The(ico) = <<>> THEN None
    ELSE LET d == SelectSeq(The(ico), IsDigit)
         IN  IF d = <<>> THEN None ELSE Some(d)
_normalize_ico(ico) ==
    IF IsNone(ico) \/ The(ico) = <<>> THEN None
    ELSE LET d == SelectSeq(The(ico), IsDigit)
         IN  IF d = <<>> THEN None ELSE Some(ZFill(d, 8))

IsEightDigits(s) == Len(s) = 8 /\ \A i \in 1..Len(s) : IsDigit(s[i])

(***************************************************************************)
(* AresVrClient: get_vr with its cache.  src/ares_vr_client.py             *)
(***************************************************************************)
\* AresClientConfig (in ticks of the model clock) and the cap of line 132
MinDelay == 2           \* min_delay_between_requests_s
BackoffBase == 1        \* backoff_base_s
BackoffCap == 6         \* min(sleep_s, 6.0)
ReqDur == 1             \* duration of one HTTP round trip

\* The ID strings callers pass to get_vr: seven digits, the same ID written
\* with eight, and a six-digit string.
Id7 == <<"1", "2", "3", "4", "5", "6", "7">>
Id7Padded == <<"0">> \o Id7
Id6 == <<"1", "2", "3", "4", "5", "6">>
RawIds == {Id7, Id7Padded, Id6}

\* A payload is a record with a tag t: "obj" (a JSON object of the registry),
\* "err" (the error-record built at lines 116-119) or "null" (Python None).
PyNone == [t |-> "null"]
IsPyNone(p) == p.t = "null"
ErrorRecord(code, ico) == [t |-> "err", _error |-> code, _url |-> ico]
HasErrorNever(p) == FALSE
HasError(p) == p.t = "err"
\* Bodies the registry can answer with status 200: a JSON object, the
\* entity's record in one of two versions.
Body(ico, ver) == [t |-> "obj", icoId |-> ico, ver |-> ver]
Bodies(ico) == {Body(ico, 1), Body(ico, 2)}
\* What one requests.get can end with: a status code, or an exception.
Codes == {"200", "400", "404", "429", "503", "EXC"}

\* json.dumps / json.loads of the payload column
JsonDumps(p) == [json |-> p]
JsonLoads(txt) == txt.json

Rows(cache, ico) == {r \in cache : r.ico = ico}

\* _cache_get: the payload of the row, or None when there is no row
_cache_get(cache, ico) ==
    IF Rows(cache, ico) = {} THEN PyNone
    ELSE JsonLoads((CHOOSE r \in Rows(cache, ico) : TRUE).payload_json)

\* _cache_put: INSERT ... ON CONFLICT(ico) DO UPDATE
_cache_put_uncommitted(cache, ico, payload, ts) == cache
_cache_put_insert_only(cache, ico, payload, ts) ==
    IF Rows(cache, ico) = {} THEN
        cache \cup {[ico |-> ico, fetched_at |-> ts, payload_json |-> JsonDumps(payload)]}
    ELSE cache
_cache_put_payload_only(cache, ico, payload, ts) ==
    IF Rows(cache, ico) = {} THEN
        cache \cup {[ico |-> ico, fetched_at |-> ts, payload_json |-> JsonDumps(payload)]}
    ELSE (cache \ Rows(cache, ico))
             \cup {[r EXCEPT !.payload_json = JsonDumps(payload)] : r \in Rows(cache, ico)}
_cache_put(cache, ico, payload, ts) ==
    (cache \ Rows(cache, ico))
        \cup {[ico |-> ico, fetched_at |-> ts, payload_json |-> JsonDumps(payload)]}

\* _sleep_rate_limit: the time at which the method returns
SleepRateLimitEnd(t, last) ==
    IF t - last < MinDelay THEN t + (MinDelay - (t - last)) ELSE t

\* time.sleep(min(backoff_base_s * 2 ** attempt, 6.0))
BackoffSleep(attempt) == Min(BackoffBase * Pow2(attempt), BackoffCap)

\* lines 91-93: the call is served from the cache
ServeFromCacheNever(force, cached) == FALSE
ServeFromCache(force, cached) == ~force /\ ~IsPyNone(cached)

\* line 109: r.status_code == 200
IsSuccess(code) == code = "200"

\* line 115: r.status_code in (400, 404)
IsDefinitiveAbsenceOnly404(code) == code = "404"
IsDefinitiveAbsence(code) == code \in {"400", "404"}

\* line 101: range(self.cfg.max_retries + 1) has no attempt left
LoopExhaustedOneLate(attempt) == attempt + 1 >= MaxRetries + 2
LoopExhausted(attempt) == attempt + 1 >= MaxRetries + 1

\* What the model records of a finished call.
Completed(call, outcome, payload, t) ==
    [raw |-> call.raw, ico |-> call.ico, force |-> call.force,
     row_before |-> call.row_before, nreq |-> call.nreq, nfail |-> call.nfail,
     last_code |-> call.last_code, outcome |-> outcome, payload |-> payload, t_end |-> t,
     sent |-> call.sent]

NoCall == [raw |-> <<>>, ico |-> <<>>, force |-> FALSE, row_before |-> {},
           attempt |-> 0, nreq |-> 0, nfail |-> 0, last_code |-> "-", sent |-> <<>>]

\* get_vr, lines 89-99: normalise, try the cache, else throttle and enter
\* the retry loop.
GetVrEnter(raw, force) ==
    /\ cl_pc = "idle"
    /\ Len(cl_hist) < MaxCalls
    /\ LET ico == norm_ico(raw)
           cached == _cache_get(ares_vr_cache, ico)
           call == [raw |-> raw, ico |-> ico, force |-> force,
                    row_before |-> Rows(ares_vr_cache, ico),
                    attempt |-> 0, nreq |-> 0, nfail |-> 0, last_code |-> "-", sent |-> <<>>]
       IN  IF ServeFromCache(force, cached) THEN
               /\ cl_hist' = Append(cl_hist, Completed(call, "hit", cached, now))
               /\ UNCHANGED <<ares_vr_cache, last_request_ts, now, cl_pc, cl_call>>
               /\ UNCHANGED <<extractVars, walkVars, uboVars, parseVars, nameVars, graphVars, concVars, seedVars>>
           ELSE
               /\ now' = SleepRateLimitEnd(now, last_request_ts)
               /\ last_request_ts' = now'
               /\ cl_pc' = "request"
               /\ cl_call' = call
               /\ UNCHANGED <<ares_vr_cache, cl_hist>>
               /\ UNCHANGED <<extractVars, walkVars, uboVars, parseVars, nameVars, graphVars, concVars, seedVars>>

\* the call after one more requests.get, sent at `now', which ended with `code'
Requested(code) ==
    [cl_call EXCEPT !.nreq = @ + 1, !.last_code = code, !.sent = Append(@, now)]

\* one loop iteration answered 200 with a JSON body: lines 103-112
Http200(code, body) ==
    /\ cl_pc = "request"
    /\ code # "EXC" /\ IsSuccess(code)
    /\ now' = now + ReqDur
    /\ ares_vr_cache' = _cache_put(ares_vr_cache, cl_call.ico, body, now')
    /\ cl_hist' = Append(cl_hist, Completed(Requested(code), "ok", body, now'))
    /\ cl_pc' = "idle"
    /\ cl_call' = NoCall
    /\ UNCHANGED <<last_request_ts, extractVars, walkVars, uboVars, parseVars, nameVars, graphVars, concVars, seedVars>>

\* one loop iteration answered 400 or 404: lines 103-121
HttpAbsent(code) ==
    /\ cl_pc = "request"
    /\ code # "EXC" /\ ~IsSuccess(code) /\ IsDefinitiveAbsence(code)
    /\ now' = now + ReqDur
    /\ LET payload == ErrorRecord(code, cl_call.ico)
       IN  /\ ares_vr_cache' = _cache_put(ares_vr_cache, cl_call.ico, payload, now')
           /\ cl_hist' = Append(cl_hist, Completed(Requested(code), "errrec", payload, now'))
    /\ cl_pc' = "idle"
    /\ cl_call' = NoCall
    /\ UNCHANGED <<last_request_ts, extractVars, walkVars, uboVars, parseVars, nameVars, graphVars, concVars, seedVars>>

\* one loop iteration that failed: any other status (429, 5xx, ...) or an
\* exception of requests.get: lines 123-132, and line 134 when the loop is
\* exhausted.
HttpFailed(code) ==
    /\ cl_pc = "request"
    /\ code = "EXC" \/ (~IsSuccess(code) /\ ~IsDefinitiveAbsence(code))
    /\ now' = now + ReqDur + BackoffSleep(cl_call.attempt)
    /\ LET failed == [Requested(code) EXCEPT !.nfail = @ + 1, !.attempt = @ + 1]
       IN  IF LoopExhausted(cl_call.attempt) THEN
               /\ cl_hist' = Append(cl_hist, Completed(failed, "raised", PyNone, now'))
               /\ cl_pc' = "idle"
               /\ cl_call' = NoCall
           ELSE
               /\ cl_call' = failed
               /\ UNCHANGED <<cl_hist, cl_pc>>
    /\ UNCHANGED <<ares_vr_cache, last_request_ts, extractVars, walkVars, uboVars, parseVars, nameVars, graphVars, concVars, seedVars>>

\* a fresh client on an empty cache file
ClientIdle ==
    /\ ares_vr_cache = {}
    /\ last_request_ts = 0
    /\ now = 1
    /\ cl_pc = "idle"
    /\ cl_call = NoCall
    /\ cl_hist = <<>>

InitClient == ClientIdle /\ ExtractIdle /\ WalkIdle /\ UboIdle /\ ParseIdle /\ NameIdle /\ OthersIdle

NextClient ==
    \/ \E raw \in RawIds, force \in BOOLEAN : GetVrEnter(raw, force)
    \/ \E code \in Codes : \E body \in Bodies(cl_call.ico) : Http200(code, body)
    \/ \E code \in Codes : HttpAbsent(code)
    \/ \E code \in Codes : HttpFailed(code)

SpecClient == InitClient /\ [][NextClient]_vars

(***************************************************************************)
(* Share texts.  A text is a sequence of tokens: a run of digits            *)
(* [k |-> "num", n |-> value, w |-> number of digits], or a lexeme          *)
(* [k |-> lexeme, n |-> 0, w |-> 0] (a separator, a unit, a keyword, a      *)
(* blank " ", or any other word).  The regular expressions of the code are  *)
(* matched token by token.                                                  *)
(* src/ares_vr_extract.py 41-123, src/ownership_resolve_online.py 23-122    *)
(***************************************************************************)
Num(v, w) == [k |-> "num", n |-> v, w |-> w]
Tok(s) == [k |-> s, n |-> 0, w |-> 0]
Ws == Tok(" ")
IsTok(t, i, s) == i <= Len(t) /\ t[i].k = s
IsNum(t, i) == IsTok(t, i, "num")
IsAnyTok(t, i, S) == i <= Len(t) /\ t[i].k \in S

RECURSIVE SkipWs(_, _)
\* \s* : the first position at or after i that holds no blank
SkipWs(t, i) == IF IsTok(t, i, " ") THEN SkipWs(t, i + 1) ELSE i

\* str.strip()
RECURSIVE StripRight(_)
StripRight(t) ==
    IF t # <<>> /\ t[Len(t)].k = " " THEN StripRight(SubSeq(t, 1, Len(t) - 1)) ELSE t
Strip(t) == LET j == SkipWs(t, 1) IN StripRight(SubSeq(t, j, Len(t)))

NoMatch == [len |-> 0, a |-> RZero, b |-> RZero]
DecSeps == {".", ",", ";"}

\* _to_float of the digits "n1" or "n1<sep>n2": float(s.replace(",", ".").replace(";", "."))
DecValueNoSemicolon(n1, n2, w2, sep) == IF sep = ";" THEN RInt(n1) ELSE RAdd(RInt(n1), Rat(n2, Pow10(w2)))
DecValue(n1, n2, w2, sep) == RAdd(RInt(n1), Rat(n2, Pow10(w2)))

\* (\d+(?:[.,;]\d+)?)\s*<unit> at position i; the optional decimals are
\* tried first, then given up (backtracking).
MatchPctAt(t, i, units) ==
    IF ~IsNum(t, i) THEN NoMatch
    ELSE LET longEnd == SkipWs(t, i + 3)
             shortEnd == SkipWs(t, i + 1)
         IN  IF IsAnyTok(t, i + 1, DecSeps) /\ IsNum(t, i + 2) /\ IsAnyTok(t, longEnd, units)
             THEN [len |-> longEnd + 1 - i,
                   a |-> DecValue(t[i].n, t[i + 2].n, t[i + 2].w, t[i + 1].k),
                   b |-> ROne]
             ELSE IF IsAnyTok(t, shortEnd, units)
             THEN [len |-> shortEnd + 1 - i, a |-> RInt(t[i].n), b |-> ROne]
             ELSE NoMatch

\* (\d+)\s*<sep>\s*(\d+) at position i
MatchFracAt(t, i, seps) ==
    IF ~IsNum(t, i) THEN NoMatch
    ELSE LET j == SkipWs(t, i + 1)
             k == SkipWs(t, j + 1)
         IN  IF IsAnyTok(t, j, seps) /\ IsNum(t, k)
             THEN [len |-> k + 1 - i, a |-> RInt(t[i].n), b |-> RInt(t[k].n)]
             ELSE NoMatch

\* <label>\s*:\s* at position i: the position after it, or 0
AfterLabel(t, i, label) ==
    IF ~IsTok(t, i, label) THEN 0
    ELSE LET j == SkipWs(t, i + 1)
         IN  IF IsTok(t, j, ":") THEN SkipWs(t, j + 1) ELSE 0

Shift(m, by) == IF m.len = 0 THEN m ELSE [m EXCEPT !.len = @ + by]

\* The patterns of lines 41-50 (extract) / 23-34 (resolver), at position i.
PCT_RE(t, i) == MatchPctAt(t, i, {"%"})
PROCENTA_RE(t, i) == MatchPctAt(t, i, {"PROCENTA"})
FRAC_SLASH_RE(t, i) == MatchFracAt(t, i, {"/"})
FRAC_SEMI_RE(t, i) == MatchFracAt(t, i, {";"})
OBCHODNI_PODIL_FRAC_RE(t, i) ==
    LET j == AfterLabel(t, i, "obchodni_podil")
    IN  IF j = 0 THEN NoMatch ELSE Shift(MatchFracAt(t, j, {"/", ";"}), j - i)
OBCHODNI_PODIL_PCT_RE(t, i) ==
    LET j == AfterLabel(t, i, "obchodni_podil")
    IN  IF j = 0 THEN NoMatch ELSE Shift(MatchPctAt(t, j, {"%", "PROCENTA"}), j - i)
HLASOVACI_PRAVA_PCT_RE(t, i) ==
    LET j == AfterLabel(t, i, "hlasovaci_prava")
    IN  IF j = 0 THEN NoMatch ELSE Shift(MatchPctAt(t, j, {"%", "PROCENTA"}), j - i)
SPLACENO_FIELD_RE(t, i) ==
    LET j == AfterLabel(t, i, "splaceno")
    IN  IF j = 0 THEN NoMatch ELSE Shift(MatchPctAt(t, j, {"PROCENTA"}), j - i)
EFEKTIVNE_RE(t, i) ==
    IF IsTok(t, i, "efektivne") /\ IsTok(t, i + 1, " ")
    THEN Shift(MatchPctAt(t, SkipWs(t, i + 1), {"%"}), SkipWs(t, i + 1) - i)
    ELSE NoMatch

\* re.finditer: the matches of pattern P, scanning from position i
RECURSIVE FindAll(_, _, _)
FindAll(P(_, _), t, i) ==
    IF i > Len(t) THEN <<>>
    ELSE LET m == P(t, i)
         IN  IF m.len > 0 THEN <<m>> \o FindAll(P, t, i + m.len)
             ELSE FindAll(P, t, i + 1)

\* re.sub(P, "", s)
RECURSIVE RemoveAll(_, _, _)
RemoveAll(P(_, _), t, i) ==
    IF i > Len(t) THEN <<>>
    ELSE LET m == P(t, i)
         IN  IF m.len > 0 THEN RemoveAll(P, t, i + m.len)
             ELSE <<t[i]>> \o RemoveAll(P, t, i + 1)

\* the loop bodies: a fraction a/b counts when b is not 0 ("b and b != 0")
RECURSIVE FracTerms(_)
FracTerms(ms) ==
    IF ms = <<>> THEN <<>>
    ELSE (IF Head(ms).b = RZero THEN <<>> ELSE <<RDiv(Head(ms).a, Head(ms).b)>>)
         \o FracTerms(Tail(ms))
RECURSIVE PctTerms(_)
PctTerms(ms) ==
    IF ms = <<>> THEN <<>>
    ELSE <<RDiv(Head(ms).a, RHundred)>> \o PctTerms(Tail(ms))

\* "if found: return ...": the first of the four layers that found a term
FirstFound(l1, l2, l3, l4) ==
    IF l1 # <<>> THEN l1 ELSE IF l2 # <<>> THEN l2 ELSE IF l3 # <<>> THEN l3 ELSE l4
\* The four layers, as a fraction: the terms of the first layer that finds any.
LayerTermsFractionsLast(s) ==
    FirstFound(FracTerms(FindAll(OBCHODNI_PODIL_FRAC_RE, s, 1))
                   \o PctTerms(FindAll(OBCHODNI_PODIL_PCT_RE, s, 1)),
               PctTerms(FindAll(HLASOVACI_PRAVA_PCT_RE, s, 1)),
               PctTerms(FindAll(PCT_RE, s, 1)) \o PctTerms(FindAll(PROCENTA_RE, s, 1)),
               FracTerms(FindAll(FRAC_SLASH_RE, s, 1)) \o FracTerms(FindAll(FRAC_SEMI_RE, s, 1)))
LayerTerms(s) ==
    FirstFound(FracTerms(FindAll(OBCHODNI_PODIL_FRAC_RE, s, 1))
                   \o PctTerms(FindAll(OBCHODNI_PODIL_PCT_RE, s, 1)),
               PctTerms(FindAll(HLASOVACI_PRAVA_PCT_RE, s, 1)),
               FracTerms(FindAll(FRAC_SLASH_RE, s, 1)) \o FracTerms(FindAll(FRAC_SEMI_RE, s, 1)),
               PctTerms(FindAll(PCT_RE, s, 1)) \o PctTerms(FindAll(PROCENTA_RE, s, 1)))
\* max(0.0, min(hi, total)) of the terms found, in units of 1/scale; None
\* when no layer found any
ClampedTotal(terms, scale, hi) ==
    IF terms = <<>> THEN None ELSE Some(RClamp(RMul(SeqSum(terms), scale), hi))

\* parse_pct_from_text (resolver line 44, app.py line 524): a fraction in
\* [0,1] or None
parse_pct_from_text(s0) ==
    IF Strip(s0) = <<>> THEN None
    ELSE ClampedTotal(LayerTerms(RemoveAll(SPLACENO_FIELD_RE, Strip(s0), 1)), ROne, ROne)

\* _parse_pct_from_text (extractor line 58): percent in [0,100] or None
_parse_pct_from_text(s0) ==
    IF Strip(s0) = <<>> THEN None
    ELSE ClampedTotal(LayerTerms(RemoveAll(SPLACENO_FIELD_RE, Strip(s0), 1)), RHundred, RHundred)

\* _to_float (line 52 / 37) of a whole text: a decimal literal, blanks around
\* it allowed by float(); anything else raises and gives None
FloatOfStripped(s) ==
    IF Len(s) = 1 /\ IsNum(s, 1) THEN Some(RInt(s[1].n))
    ELSE IF Len(s) = 3 /\ IsNum(s, 1) /\ IsAnyTok(s, 2, DecSeps) /\ IsNum(s, 3)
    THEN Some(DecValue(s[1].n, s[3].n, s[3].w, s[2].k))
    ELSE None
_to_float(s0) == FloatOfStripped(Strip(s0))

\* parse_effective_from_text (resolver line 112): re.search, first match
FirstEffective(ms) ==
    IF ms = <<>> THEN None ELSE Some(RClamp(RDiv(Head(ms).a, RHundred), ROne))
parse_effective_from_text(s0) == FirstEffective(FindAll(EFEKTIVNE_RE, Strip(s0), 1))

(***************************************************************************)
(* The two share-text parsers called on their own.  A text is a list of    *)
(* fields joined by "; ", as the registry writes them.                     *)
(* src/ownership_resolve_online.py 44-109, src/ares_vr_extract.py 58-123   *)
(***************************************************************************)
MaxFields == 3          \* fields of one share text

\* the fields a share text is made of
Fields ==
    { <<Tok("obchodni_podil"), Tok(":"), Ws, Num(1, 1), Tok("/"), Num(2, 1)>>,
      <<Tok("obchodni_podil"), Tok(":"), Num(25, 2), Ws, Tok("PROCENTA")>>,
      <<Tok("hlasovaci_prava"), Tok(":"), Ws, Num(30, 2), Ws, Tok("%")>>,
      <<Tok("splaceno"), Tok(":"), Num(100, 3), Ws, Tok("PROCENTA")>>,
      <<Tok("velikost"), Tok(":"), Num(2, 1), Tok(";"), Num(25, 2), Ws, Tok("PROCENTA")>>,
      <<Num(1, 1), Tok("/"), Num(3, 1)>>,
      <<Num(1, 1), Tok("/"), Num(0, 1)>>,
      <<Num(50, 2), Ws, Tok("%")>>,
      <<Num(80, 2), Ws, Tok("PROCENTA")>> }

RECURSIVE JoinFields(_)
JoinFields(fs) ==
    IF fs = <<>> THEN <<>>
    ELSE IF Len(fs) = 1 THEN fs[1]
    ELSE fs[1] \o <<Tok(";"), Ws>> \o JoinFields(Tail(fs))

ShareTexts ==
    {JoinFields(fs) : fs \in UNION {[1..n -> Fields] : n \in 0..MaxFields}} \cup {<<Ws>>}

\* parse_pct_from_text(s) and _parse_pct_from_text(s)
ParseText ==
    /\ IsNone(pt_out)
    /\ pt_out' = Some([frac |-> parse_pct_from_text(pt_text),
                       pct |-> _parse_pct_from_text(pt_text)])
    /\ UNCHANGED <<pt_text, clientVars, extractVars, walkVars, uboVars, nameVars, graphVars, concVars, seedVars>>

InitParse ==
    /\ pt_text \in ShareTexts
    /\ pt_out = None
    /\ ClientIdle /\ ExtractIdle /\ WalkIdle /\ UboIdle /\ NameIdle /\ OthersIdle

NextParse == ParseText

SpecParse == InitParse /\ [][NextParse]_vars

(***************************************************************************)
(* The owner extractor.  src/ares_vr_extract.py                            *)
(*                                                                         *)
(* A registry payload is [t |-> "obj", icoId, zaznamy]; a missing JSON key *)
(* is None (or the empty sequence for a list or a text).  Dates are        *)
(* positive integers.  Names and share texts are token sequences; a        *)
(* registry ID inside a text is one digit-run token.                       *)
(***************************************************************************)
RECURSIVE DigitsValue(_)
DigitsValue(cs) ==
    IF cs = <<>> THEN 0
    ELSE 10 * DigitsValue(SubSeq(cs, 1, Len(cs) - 1))
         + (CHOOSE d \in 0..9 : ToString(d) = cs[Len(cs)])
\* the characters of an ID as they stand in a formatted text
IdToks(cs) ==
    IF cs = <<>> THEN <<>>
    ELSE IF \A i \in 1..Len(cs) : IsDigit(cs[i]) THEN <<Num(DigitsValue(cs), Len(cs))>>
    ELSE [i \in 1..Len(cs) |-> Tok(cs[i])]

RECURSIVE JoinToks(_, _)
\* sep.join(parts)
JoinToks(parts, sep) ==
    IF parts = <<>> THEN <<>>
    ELSE IF Len(parts) = 1 THEN parts[1]
    ELSE parts[1] \o sep \o JoinToks(Tail(parts), sep)

\* _is_active_item: not item.get("datumVymazu")
_is_active_item_always(item) == TRUE
_is_active_item(item) == IsNone(item.datumVymazu)

\* _pick_primary_or_record
_pick_primary_or_record(zaznamy) ==
    IF zaznamy = <<>> THEN None
    ELSE LET prim == SelectSeq(zaznamy, LAMBDA z : z.primarniZaznam)
         IN  IF prim # <<>> THEN Some(prim[1]) ELSE Some(zaznamy[1])

\* _parse_date; None compares as datetime.min
DateOrMin(d) == IF IsNone(d) THEN 0 ELSE The(d)

UnknownSubject == <<Tok("Neznamy"), Ws, Tok("subjekt")>>
UnknownPerson == <<Tok("Fyzicka"), Ws, Tok("osoba"), Ws, Tok("(neznama)")>>
CompanyFallbackName(ico) ==
    <<Tok("Spolecnost"), Ws, Tok("(ICO"), Ws>>
        \o (IF IsNone(ico) THEN <<Tok("?")>> ELSE IdToks(The(ico))) \o <<Tok(")")>>

\* one part of _compose_share_raw: f"<field>:{h} {t or ''}".strip()
RawPart(field, item) ==
    IF IsNone(item) \/ IsNone(The(item).hodnota) THEN <<>>
    ELSE <<StripRight(<<Tok(field), Tok(":")>> \o The(The(item).hodnota)
                      \o <<Ws>> \o (IF The(item).typObnos = "" THEN <<>>
                                    ELSE <<Tok(The(item).typObnos)>>))>>

\* _compose_share_raw
_compose_share_raw(podil) ==
    JoinToks(RawPart("vklad", podil.vklad) \o RawPart("velikost", podil.velikostPodilu)
                 \o RawPart("splaceno", podil.splaceni),
             <<Tok(";"), Ws>>)

\* the value one active podil adds in _parse_share_from_podil_list (lines
\* 163-184), or None
DirectOrParsed(typ, v, parsed) == IF typ = "PROCENTA" /\ IsSome(v) THEN v ELSE parsed
PodilValue(p) ==
    IF IsNone(p.velikostPodilu) \/ IsNone(The(p.velikostPodilu).hodnota) THEN None
    ELSE DirectOrParsed(The(p.velikostPodilu).typObnos,
                        _to_float(The(The(p.velikostPodilu).hodnota)),
                        _parse_pct_from_text(The(The(p.velikostPodilu).hodnota)))

\* _parse_share_from_podil_list: [pct |-> Option, raw |-> text]
\* the values found and the raw texts of the active entries, put together
ShareOfActive(found, raws) ==
    [pct |-> IF found = <<>> THEN None
             ELSE Some(RClamp(SeqSum([i \in 1..Len(found) |-> The(found[i])]), RHundred)),
     raw |-> JoinToks(SelectSeq(raws, LAMBDA r : r # <<>>), <<Tok(";"), Ws>>)]
ActivePodily(act) ==
    ShareOfActive(SelectSeq([i \in 1..Len(act) |-> PodilValue(act[i])], IsSome),
                  [i \in 1..Len(act) |-> _compose_share_raw(act[i])])
_parse_share_from_podil_list(podily) == ActivePodily(SelectSeq(podily, _is_active_item))

\* _person_name
_person_name(fos) ==
    LET parts == SelectSeq(<<fos.titulPredJmenem, fos.jmeno, fos.prijmeni>>,
                           LAMBDA x : x # "")
        joined == JoinToks([i \in 1..Len(parts) |-> <<Tok(parts[i])>>], <<Ws>>)
    IN  IF joined = <<>> THEN UnknownPerson ELSE joined

Owner(kind, name, ico, share_pct, share_raw, label) ==
    [kind |-> kind, name |-> name, ico |-> ico, share_pct |-> share_pct,
     share_raw |-> share_raw, label |-> label]

\* lines 253-254 / 311-312: ID and name of a legal person
PosIco(pos) == _normalize_ico(pos.ico)
PosName(pos) ==
    Strip(IF pos.obchodniJmeno # <<>> THEN pos.obchodniJmeno
          ELSE IF pos.nazev # <<>> THEN pos.nazev
          ELSE CompanyFallbackName(PosIco(pos)))

RECURSIVE Flatten(_)
Flatten(ss) == IF ss = <<>> THEN <<>> ELSE Head(ss) \o Flatten(Tail(ss))

Label(org, default) == IF org.nazevOrganu = "" THEN default ELSE org.nazevOrganu

\* lines 240-246: the (label, spolecnik) pairs the loops reach, in order
MemberEntries(zaznam) ==
    LET bloky == SelectSeq(zaznam.spolecnici, _is_active_item)
    IN  Flatten([b \in 1..Len(bloky) |->
            LET act == SelectSeq(bloky[b].spolecnik, _is_active_item)
            IN  [i \in 1..Len(act) |->
                    [label |-> Label(bloky[b], "Spolecnici"), sp |-> act[i]]]])

\* lines 248-264: the candidate record of one spolecnik, or None
Candidate(e) ==
    LET fos == e.sp.osoba.fyzickaOsoba
        pos == e.sp.osoba.pravnickaOsoba
    IN  IF IsSome(pos) THEN
            Some([label |-> e.label, kind |-> "COMPANY", name |-> PosName(The(pos)),
                  ico |-> PosIco(The(pos)), spolecnik |-> e.sp,
                  datumZapisu |-> e.sp.datumZapisu,
                  ident |-> <<Tok("COMPANY")>> \o
                            (IF IsSome(PosIco(The(pos))) THEN IdToks(The(PosIco(The(pos))))
                             ELSE PosName(The(pos)))])
        ELSE IF IsSome(fos) THEN
            Some([label |-> e.label, kind |-> "PERSON", name |-> _person_name(The(fos)),
                  ico |-> None, spolecnik |-> e.sp,
                  datumZapisu |-> e.sp.datumZapisu,
                  ident |-> <<Tok("PERSON")>> \o _person_name(The(fos))])
        ELSE None

SameKey(a, b) == a.label = b.label /\ a.ident = b.ident

\* lines 267-279: keep the newest record per (label, ident); a dict keeps
\* the position of the first insertion
RECURSIVE LatestFold(_, _)
LatestFold(entries, latest) ==
    IF entries = <<>> THEN latest
    ELSE LET c == Candidate(Head(entries))
         IN  IF IsNone(c) THEN LatestFold(Tail(entries), latest)
             ELSE LET new == The(c)
                      at == {i \in 1..Len(latest) : SameKey(latest[i], new)}
                  IN  IF at = {} THEN LatestFold(Tail(entries), Append(latest, new))
                      ELSE LET i == CHOOSE j \in at : TRUE
                           IN  IF DateOrMin(latest[i].datumZapisu) < DateOrMin(new.datumZapisu)
                               THEN LatestFold(Tail(entries), [latest EXCEPT ![i] = new])
                               ELSE LatestFold(Tail(entries), latest)

\* lines 282-296
OwnerOfRecord(rec, sh) ==
    Owner(rec.kind, rec.name, rec.ico, sh.pct,
          IF sh.raw = <<>> THEN None ELSE Some(sh.raw), rec.label)
MemberOwner(rec) == OwnerOfRecord(rec, _parse_share_from_podil_list(rec.spolecnik.podil))

\* lines 300-316
ShareholderOwners(zaznam) ==
    LET orgs == SelectSeq(zaznam.akcionari, _is_active_item)
    IN  Flatten([o \in 1..Len(orgs) |->
            LET act == SelectSeq(orgs[o].clenoveOrganu, _is_active_item)
                lab == Label(orgs[o], "Akcionari")
            IN  Flatten([i \in 1..Len(act) |->
                    IF IsSome(act[i].pravnickaOsoba) THEN
                        <<Owner("COMPANY", PosName(The(act[i].pravnickaOsoba)),
                                PosIco(The(act[i].pravnickaOsoba)), Some(RHundred), None, lab)>>
                    ELSE IF IsSome(act[i].fyzickaOsoba) THEN
                        <<Owner("PERSON", _person_name(The(act[i].fyzickaOsoba)),
                                None, Some(RHundred), None, lab)>>
                    ELSE <<>>])])

\* lines 225-232: the company's name
CompanyName(zaznam) ==
    LET oj == zaznam.obchodniJmeno
        oj_active == SelectSeq(oj, _is_active_item)
        pick == IF oj_active # <<>> THEN oj_active[Len(oj_active)].hodnota
                ELSE IF oj # <<>> THEN oj[Len(oj)].hodnota ELSE <<>>
    IN  IF pick = <<>> THEN UnknownSubject ELSE pick

\* extract_current_owners: [ico, name, owners]; ico is "" (<<>>) when the
\* payload has none
MemberOwners(latest) == [i \in 1..Len(latest) |-> MemberOwner(latest[i])]
\* lines 225-318 on the record picked
OwnersOfRecord(n, zaznam) ==
    IF IsNone(zaznam) THEN [ico |-> n, name |-> UnknownSubject, owners |-> <<>>]
    ELSE [ico |-> n,
          name |-> CompanyName(The(zaznam)),
          owners |-> MemberOwners(LatestFold(MemberEntries(The(zaznam)), <<>>))
                     \o ShareholderOwners(The(zaznam))]
OrEmpty(n) == IF IsNone(n) THEN <<>> ELSE The(n)
extract_current_owners(vr_payload) ==
    OwnersOfRecord(OrEmpty(_normalize_ico(Some(vr_payload.icoId))),
                   _pick_primary_or_record(vr_payload.zaznamy))

(***************************************************************************)
(* Inputs of the extractor: one record holding at most one member group    *)
(* (spolecnici) and at most one shareholder section (akcionari).  A        *)
(* section has no field for the size of a member's share: the code reads   *)
(* none (lines 300-316).                                                   *)
(***************************************************************************)
Deleted == Some(9)          \* some datumVymazu
SeqsUpTo(S, n) == UNION {[1..k -> S] : k \in 0..n}

FosNovak == [titulPredJmenem |-> "", jmeno |-> "Jan", prijmeni |-> "Novak"]
PosBeta == [ico |-> Some(<<"2", "7", "0", "7", "4", "3", "5">>),
            obchodniJmeno |-> <<Tok("Beta"), Ws, Tok("s.r.o.")>>, nazev |-> <<>>]
Osoby == {[fyzickaOsoba |-> Some(FosNovak), pravnickaOsoba |-> None],
          [fyzickaOsoba |-> None, pravnickaOsoba |-> Some(PosBeta)]}

Amount(typ, h) == Some([typObnos |-> typ, hodnota |-> Some(h)])
\* velikost 50 PROCENTA, not deleted
PodilHalf == [datumVymazu |-> None, velikostPodilu |-> Amount("PROCENTA", <<Num(50, 2)>>),
              vklad |-> None, splaceni |-> Amount("PROCENTA", <<Num(100, 3)>>)]
\* velikost 30 PROCENTA, deleted
PodilOld == [datumVymazu |-> Deleted, velikostPodilu |-> Amount("PROCENTA", <<Num(30, 2)>>),
             vklad |-> None, splaceni |-> None]
PodilLists == {<<>>, <<PodilHalf>>, <<PodilOld>>, <<PodilOld, PodilHalf>>}

Spolecnik ==
    [datumVymazu : {None, Deleted}, datumZapisu : {Some(1), Some(2)},
     osoba : Osoby, podil : PodilLists]
Bloky ==
    [datumVymazu : {None, Deleted}, nazevOrganu : {""},
     spolecnik : SeqsUpTo(Spolecnik, MaxMembers)]
Clen(del, osoba) ==
    [datumVymazu |-> del, fyzickaOsoba |-> osoba.fyzickaOsoba,
     pravnickaOsoba |-> osoba.pravnickaOsoba]
ClenBeta(del) == Clen(del, CHOOSE o \in Osoby : IsSome(o.pravnickaOsoba))
ClenNovak == Clen(None, CHOOSE o \in Osoby : IsSome(o.fyzickaOsoba))
\* a section headed "Jediny akcionar" whose one member is a natural person
SekceSole ==
    [datumVymazu |-> None, nazevOrganu |-> "Jediny akcionar", clenoveOrganu |-> <<ClenNovak>>]
\* a section without a header that lists the same company twice
SekceTwice ==
    [datumVymazu |-> None, nazevOrganu |-> "", clenoveOrganu |-> <<ClenBeta(None), ClenBeta(None)>>]
Sekce ==
    [datumVymazu : {None, Deleted}, nazevOrganu : {""},
     clenoveOrganu : {<<ClenBeta(del)>> : del \in {None, Deleted}}]
        \cup {SekceSole, SekceTwice}
Zaznamy ==
    [primarniZaznam : {TRUE},
     obchodniJmeno : {<<[hodnota |-> <<Tok("Alfa"), Ws, Tok("a.s.")>>, datumVymazu |-> None]>>},
     spolecnici : SeqsUpTo(Bloky, 1),
     akcionari : SeqsUpTo(Sekce, 1)]
ExtractInputs ==
    {[t |-> "obj", icoId |-> <<"1", "2", "3", "4", "5", "6", "7">>, zaznamy |-> <<z>>] :
         z \in Zaznamy}

\* extract_current_owners applied to the payload
ExtractOwners ==
    /\ IsNone(ex_out)
    /\ ex_out' = Some(extract_current_owners(ex_payload))
    /\ UNCHANGED <<ex_payload, clientVars, walkVars, uboVars, parseVars, nameVars, graphVars, concVars, seedVars>>

InitExtract ==
    /\ ex_payload \in ExtractInputs
    /\ ex_out = None
    /\ ClientIdle /\ WalkIdle /\ UboIdle /\ ParseIdle /\ NameIdle /\ OthersIdle

NextExtract == ExtractOwners

SpecExtract == InitExtract /\ [][NextExtract]_vars

(***************************************************************************)
(* Registry content for the tree resolver: three companies A, B, C and two *)
(* natural persons P, Q.  An owner entry names its holder, the section it  *)
(* is registered in and its share as the registry writes it; val is what   *)
(* that share means as a fraction (None when the registry gives no size).  *)
(***************************************************************************)
RECURSIVE NumW(_)
\* the number of digits of str(v)
NumW(v) == IF v < 10 THEN 1 ELSE 1 + NumW(v \div 10)
Digits(v) == Num(v, NumW(v))

\* f"{x:.2f}" of a rational x >= 0 (ties to even)
Fmt2(x) ==
    LET num == 100 * x[1]
        q == num \div x[2]
        r == num % x[2]
        c == IF 2 * r > x[2] \/ (2 * r = x[2] /\ q % 2 = 1) THEN q + 1 ELSE q
    IN  <<Digits(c \div 100), Tok("."), Num(c % 100, 2)>>

Ico(key) == Rep("0", 7) \o <<CASE key = "A" -> "1" [] key = "B" -> "2" [] OTHER -> "3">>
KeyOf(ico) == IF ico = Ico("A") THEN "A" ELSE IF ico = Ico("B") THEN "B"
              ELSE IF ico = Ico("C") THEN "C" ELSE "-"
CompanyNameOf(key) ==
    <<Tok(CASE key = "A" -> "Alfa" [] key = "B" -> "Beta" [] OTHER -> "Gama"), Ws, Tok("s.r.o.")>>
FosOf(key) == IF key = "P" THEN [titulPredJmenem |-> "", jmeno |-> "Petr", prijmeni |-> "Dvorak"]
              ELSE [titulPredJmenem |-> "Ing.", jmeno |-> "Jana", prijmeni |-> "Mala"]
\* the registry writes the ID of a legal person without its leading zero
PosOf(key) == [ico |-> Some(Tail(Ico(key))), obchodniJmeno |-> CompanyNameOf(key), nazev |-> <<>>]

Pct(n) == [typ |-> "PROCENTA", text |-> <<Digits(n)>>, val |-> Some(Rat(n, 100))]
Frac(a, b) == [typ |-> "TEXT", text |-> <<Digits(a), Tok("/"), Digits(b)>>, val |-> Some(Rat(a, b))]
Vklad == [typ |-> "KORUNY", text |-> <<Digits(20000)>>, val |-> None]
NoShare == [typ |-> "", text |-> <<>>, val |-> None]
\* a shareholder; organ is nazevOrganu of the block that lists it
Sole == [typ |-> "AKCIE", text |-> <<>>, val |-> Some(ROne), organ |-> ""]
SoleNamed == [typ |-> "AKCIE", text |-> <<>>, val |-> Some(ROne), organ |-> "Jediny akcionar"]

\* an owner entry: a company (kind "C") or a natural person (kind "N")
Co(key, share) == [kind |-> "C", who |-> key, share |-> share]
Na(key, share) == [kind |-> "N", who |-> key, share |-> share]

OwnersA ==
    {<<Co("B", Pct(30)), Co("C", Pct(30))>>,
     <<Co("B", Pct(50)), Na("P", Pct(50))>>,
     <<Na("P", Pct(100))>>,
     <<Co("B", NoShare), Na("Q", Vklad)>>,
     <<Co("B", Frac(1, 2)), Na("Q", Pct(25))>>,
     <<Co("A", Pct(50)), Na("P", Pct(50))>>,
     <<Na("Q", Pct(10)), Co("B", Sole)>>,
     <<>>}
OwnersB ==
    {<<Na("P", Pct(100))>>,
     <<Co("C", Pct(50)), Na("P", Pct(50))>>,
     <<Co("A", Pct(100))>>,
     <<Na("Q", Frac(1, 2)), Na("P", NoShare)>>,
     <<>>}
OwnersC ==
    {<<Na("P", Pct(100))>>,
     <<Na("P", Pct(50)), Na("Q", Pct(50))>>,
     <<>>}
\* manual_overrides: {target ID: [(owner ID, share 0..1)]}
Overrides == {<<>>, <<[target |-> Ico("A"), owner_ico |-> Tail(Ico("C")), share |-> Rat(2, 5)]>>}
\* max_depth: no descent at all, one level of owners, or the bound
DepthLimits == {0, 3, MaxDepth}
Worlds ==
    [A : [known : {TRUE}, owners : OwnersA],
     B : [known : {TRUE}, owners : OwnersB] \cup {[known |-> FALSE, owners |-> <<>>]},
     C : [known : {TRUE}, owners : OwnersC],
     manual : Overrides,
     max_depth : DepthLimits,
     down : {{}}]
\* the same registries with companies whose requests all fail (a 5xx answer
\* or a timeout at every attempt)
WorldsDown ==
    [A : [known : {TRUE}, owners : OwnersA],
     B : [known : {TRUE}, owners : OwnersB] \cup {[known |-> FALSE, owners |-> <<>>]},
     C : [known : {TRUE}, owners : OwnersC] \cup {[known |-> FALSE, owners |-> <<>>]},
     manual : Overrides,
     max_depth : DepthLimits,
     down : {{"B"}, {"C"}, {"B", "C"}}]

\* the podil list the registry holds for a share
PodilOf(share) ==
    IF share.typ = "" \/ share.typ = "AKCIE" THEN <<>>
    ELSE IF share.typ = "KORUNY" THEN
        <<[datumVymazu |-> None, velikostPodilu |-> None,
           vklad |-> Amount("KORUNY", share.text), splaceni |-> None]>>
    ELSE <<[datumVymazu |-> None, velikostPodilu |-> Amount(share.typ, share.text),
            vklad |-> None, splaceni |-> Amount("PROCENTA", <<Digits(100)>>)]>>
OsobaOf(e) ==
    IF e.kind = "C" THEN [fyzickaOsoba |-> None, pravnickaOsoba |-> Some(PosOf(e.who))]
    ELSE [fyzickaOsoba |-> Some(FosOf(e.who)), pravnickaOsoba |-> None]
\* the JSON object the registry answers for a company
PayloadOf(key, owners) ==
    LET sp == SelectSeq(owners, LAMBDA e : e.share.typ # "AKCIE")
        ak == SelectSeq(owners, LAMBDA e : e.share.typ = "AKCIE")
    IN  [t |-> "obj", icoId |-> Ico(key),
         zaznamy |-> <<[primarniZaznam |-> TRUE,
             obchodniJmeno |-> <<[hodnota |-> CompanyNameOf(key), datumVymazu |-> None]>>,
             spolecnici |-> IF sp = <<>> THEN <<>> ELSE
                 <<[datumVymazu |-> None, nazevOrganu |-> "",
                    spolecnik |-> [i \in 1..Len(sp) |->
                        [datumVymazu |-> None, datumZapisu |-> Some(1),
                         osoba |-> OsobaOf(sp[i]), podil |-> PodilOf(sp[i].share)]]]>>,
             akcionari |-> IF ak = <<>> THEN <<>> ELSE
                 <<[datumVymazu |-> None, nazevOrganu |-> ak[1].share.organ,
                    clenoveOrganu |-> [i \in 1..Len(ak) |-> Clen(None, OsobaOf(ak[i]))]]>>]>>]

\* what the registry answers to one request for `ico': status and payload
RegistryAnswer(world, ico) ==
    IF KeyOf(ico) \in world.down THEN [code |-> "503", payload |-> PyNone]
    ELSE IF KeyOf(ico) # "-" /\ world[KeyOf(ico)].known
    THEN [code |-> "200", payload |-> PayloadOf(KeyOf(ico), world[KeyOf(ico)].owners)]
    ELSE [code |-> "404", payload |-> ErrorRecord("404", ico)]

RECURSIVE RetriesEnd(_, _)
\* lines 101-132 when every attempt fails: the time at which the loop is
\* left, each attempt being a request and a backoff sleep
RetriesEnd(t, attempt) ==
    IF attempt > MaxRetries THEN t
    ELSE RetriesEnd(t + ReqDur + BackoffSleep(attempt), attempt + 1)

\* client.get_vr(raw) as the resolver sees it, on the client state
\* cs = [cache, last, now]: a cache hit, or one throttled request whose
\* answer (200, or 404 as an error-record) is cached and returned, or
\* max_retries + 1 failed requests and the RuntimeError of line 134 (raised)
WalkGetVr(cs, world, raw) ==
    LET ico == norm_ico(raw)
        cached == _cache_get(cs.cache, ico)
    IN  IF ServeFromCache(FALSE, cached)
        THEN [cs |-> cs, payload |-> cached, raised |-> FALSE]
        ELSE LET ans == RegistryAnswer(world, ico)
                 sent == SleepRateLimitEnd(cs.now, cs.last)
             IN  IF IsSuccess(ans.code) \/ IsDefinitiveAbsence(ans.code)
                 THEN [cs |-> [cache |-> _cache_put(cs.cache, ico, ans.payload, sent + ReqDur),
                               last |-> sent, now |-> sent + ReqDur],
                       payload |-> ans.payload, raised |-> FALSE]
                 ELSE [cs |-> [cache |-> cs.cache, last |-> sent,
                               now |-> RetriesEnd(sent, 0)],
                       payload |-> PyNone, raised |-> TRUE]

\* extract_current_owners of whatever get_vr returned: an error-record has
\* neither icoId nor zaznamy
ExtractAny(payload) ==
    extract_current_owners(IF payload.t = "obj" THEN payload
                           ELSE [t |-> "obj", icoId |-> <<>>, zaznamy |-> <<>>])

(***************************************************************************)
(* resolve_tree_online.  src/ownership_resolve_online.py 125-288           *)
(*                                                                         *)
(* The recursion of walk() is an explicit stack: a "call" frame is a       *)
(* pending walk(ico, depth, parent_multiplier); a "loop" frame is what is  *)
(* left of the two for-loops of lines 207-284, flattened to items (a label *)
(* or an owner).  A line carries, besides the fields of NodeLine, what     *)
(* the step that wrote it knew: its kind, its parent multiplier m, the     *)
(* local share s, the company-owner line its walk was called from (via)    *)
(* and the header line of its company (hdr).                               *)
(***************************************************************************)
NodeLine(depth, label, text, effective_pct, kind, m, s, via, hdr) ==
    [depth |-> depth, label |-> label, text |-> text, effective_pct |-> effective_pct,
     kind |-> kind, m |-> m, s |-> s, via |-> via, hdr |-> hdr]

NoOwner == Owner("", <<>>, None, None, None, "")
Call(ico, depth, mult, via) ==
    [f |-> "call", ico |-> ico, depth |-> depth, mult |-> mult, via |-> via,
     hdr |-> 0, items |-> <<>>]
Loop(depth, mult, hdr, items) ==
    [f |-> "loop", ico |-> <<>>, depth |-> depth, mult |-> mult, via |-> 0,
     hdr |-> hdr, items |-> items]
LabelItem(label) == [i |-> "label", label |-> label, o |-> NoOwner]
OwnerItem(o) == [i |-> "owner", label |-> o.label, o |-> o]

Top == wk_stack[Len(wk_stack)]
Rest == SubSeq(wk_stack, 1, Len(wk_stack) - 1)
RECURSIVE Settle(_)
\* a for-loop with nothing left returns to its caller
Settle(stack) ==
    IF stack # <<>> /\ stack[Len(stack)].f = "loop" /\ stack[Len(stack)].items = <<>>
    THEN Settle(SubSeq(stack, 1, Len(stack) - 1))
    ELSE stack
\* the loop frame on top, one item further
Advance == Append(Rest, [Top EXCEPT !.items = Tail(@)])

ClientState == [cache |-> ares_vr_cache, last |-> last_request_ts, now |-> now]
SetClient(cs) ==
    /\ ares_vr_cache' = cs.cache
    /\ last_request_ts' = cs.last
    /\ now' = cs.now
    /\ UNCHANGED <<cl_pc, cl_call, cl_hist>>

\* the em dash of the line texts is the lexeme "--"
Dash == <<Ws, Tok("--"), Ws>>
IcoSuffix(ico) == <<Ws, Tok("(ICO"), Ws>> \o IdToks(ico) \o <<Tok(")")>>
Words(ws) == JoinToks([i \in 1..Len(ws) |-> <<Tok(ws[i])>>], <<Ws>>)
ErrorText(e) == <<Tok("ARES"), Ws, Tok("HTTP"), Ws, Num(IF e = "404" THEN 404 ELSE 400, 3)>>

\* line 146: if depth > max_depth
TooDeepBeyond(depth, max_depth) == depth > max_depth + 3
TooDeep(depth, max_depth) == depth > max_depth

\* lines 146-148: the depth guard
WalkTooDeep ==
    /\ wk_stack # <<>> /\ IsNone(wk_persons)
    /\ Top.f = "call"
    /\ TooDeep(Top.depth, wk_world.max_depth)
    /\ wk_lines' = Append(wk_lines,
           NodeLine(Top.depth, "", Words(<<"(!)", "Prekrocena", "max", "hloubka">>), None,
                    "truncated", Top.mult, None, Top.via, 0))
    /\ wk_stack' = Settle(Rest)
    /\ UNCHANGED <<wk_world, wk_runs, wk_warnings, wk_persons, clientVars, extractVars, uboVars, parseVars, nameVars, graphVars, concVars, seedVars>>

\* lines 150-155: the registry has no record, get_vr returned an error-record
WalkError ==
    /\ wk_stack # <<>> /\ IsNone(wk_persons)
    /\ Top.f = "call"
    /\ ~TooDeep(Top.depth, wk_world.max_depth)
    /\ LET r == WalkGetVr(ClientState, wk_world, Top.ico)
           err_txt == Words(<<"(!)", "Nelze", "nacist", "ARES", "VR", "pro">>) \o <<Ws>>
                          \o IdToks(Top.ico) \o <<Tok(":"), Ws>> \o ErrorText(r.payload._error)
       IN  /\ ~r.raised /\ HasError(r.payload)
           /\ SetClient(r.cs)
           /\ wk_lines' = Append(wk_lines,
                  NodeLine(Top.depth, "", err_txt, None, "error", Top.mult, None, Top.via, 0))
           /\ wk_warnings' = Append(wk_warnings,
                  [kind |-> "error", ico |-> Top.ico, name |-> <<>>, text |-> err_txt])
    /\ wk_stack' = Settle(Rest)
    /\ UNCHANGED <<wk_world, wk_runs, wk_persons, extractVars, uboVars, parseVars, nameVars, graphVars, concVars, seedVars>>

\* lines 171-189: the owners added by hand for company c_ico; each costs one
\* get_vr for the owner's name
RECURSIVE ManualOwners(_, _, _, _)
\* lines 181-190: the Owner built for one manual entry, given the name
\* the registry has for it
ManualOwner(e, name2, pct) ==
    Owner("COMPANY",
          IF name2 # <<>> THEN name2
          ELSE <<Tok("Spolecnost")>> \o IcoSuffix(ZFill(e.owner_ico, 8)),
          Some(ZFill(e.owner_ico, 8)), Some(pct),
          Some(<<Tok("velikost"), Tok(":")>> \o Fmt2(pct) \o <<Ws, Tok("PROCENTA")>>),
          "Manualne doplneno")
Prepend(o, more) == [cs |-> more.cs, owners |-> <<o>> \o more.owners]
RECURSIVE ManualOwnersAfter(_, _, _, _)
ManualOwners(cs, world, entries, c_ico) ==
    IF entries = <<>> THEN [cs |-> cs, owners |-> <<>>]
    ELSE IF Head(entries).target # c_ico THEN ManualOwners(cs, world, Tail(entries), c_ico)
    ELSE ManualOwnersAfter(WalkGetVr(cs, world, Head(entries).owner_ico), world, entries, c_ico)
\* lines 174-180: the name the lookup gave; "" when get_vr raised
\* (except Exception: pass) or the payload has no name
LookupName(r) == IF r.raised THEN <<>> ELSE ExtractAny(r.payload).name
\* the rest of one round of the loop, r being what get_vr gave
ManualOwnersAfter(r, world, entries, c_ico) ==
    Prepend(ManualOwner(Head(entries), LookupName(r),
                        RMul(Head(entries).share, RHundred)),
            ManualOwners(r.cs, world, Tail(entries), c_ico))

RECURSIVE LabelsOf(_, _)
\* the keys of by_label, in the order of their first owner
LabelsOf(owners, seen) ==
    IF owners = <<>> THEN seen
    ELSE IF \E i \in 1..Len(seen) : seen[i] = Head(owners).label
         THEN LabelsOf(Tail(owners), seen)
         ELSE LabelsOf(Tail(owners), Append(seen, Head(owners).label))
\* lines 202-210: the owners grouped by label, each group behind its label
LoopItems(owners) ==
    LET labels == LabelsOf(owners, <<>>)
    IN  Flatten([g \in 1..Len(labels) |->
            LET lst == SelectSeq(owners, LAMBDA o : o.label = labels[g])
            IN  <<LabelItem(labels[g])>> \o [k \in 1..Len(lst) |-> OwnerItem(lst[k])]])

\* lines 150-205: the company's record is there: header line, owners of the
\* registry plus the manual ones, the unresolved warning, and the grouping
\* lines 159-204, ex being what the extractor gave and man the manual owners
\* with the client state they left
\* lines 193-194: the owners the loops go through. APPEND: registry, then manual
AllOwnersReplace(registry, manual) == IF manual # <<>> THEN manual ELSE registry
AllOwners(registry, manual) == registry \o manual
\* line 197: if not owners, after the merge of lines 193-194
UnresolvedRegistryOnly(registry, manual) == registry = <<>>
Unresolved(registry, manual) == AllOwners(registry, manual) = <<>>
CompanyStep(ex, man) ==
    /\ SetClient(man.cs)
    /\ wk_lines' = Append(wk_lines,
           NodeLine(Top.depth, "", ex.name \o IcoSuffix(ex.ico),
                    IF Top.depth = 0 THEN Some(RMul(Top.mult, RHundred)) ELSE None,
                    "header", Top.mult, None, Top.via, 0))
    /\ wk_warnings' =
           IF Unresolved(ex.owners, man.owners)
           THEN Append(wk_warnings,
                    [kind |-> "unresolved", ico |-> ex.ico, name |-> ex.name,
                     text |-> Words(<<"(!)", "Nepodarilo", "se", "dohledat", "vlastnika",
                                      "v", "OR", "pro">>)
                                  \o <<Ws>> \o ex.name \o IcoSuffix(ex.ico)])
           ELSE wk_warnings
    /\ wk_stack' = Settle(Append(Rest,
           Loop(Top.depth, Top.mult, Len(wk_lines) + 1, LoopItems(AllOwners(ex.owners, man.owners)))))
CompanyExtracted(r, ex) == CompanyStep(ex, ManualOwners(r.cs, wk_world, wk_world.manual, ex.ico))
CompanyFetched(r) ==
    ~r.raised /\ ~HasError(r.payload) /\ CompanyExtracted(r, ExtractAny(r.payload))
WalkCompany ==
    /\ wk_stack # <<>> /\ IsNone(wk_persons)
    /\ Top.f = "call"
    /\ ~TooDeep(Top.depth, wk_world.max_depth)
    /\ CompanyFetched(WalkGetVr(ClientState, wk_world, Top.ico))
    /\ UNCHANGED <<wk_world, wk_runs, wk_persons, extractVars, uboVars, parseVars, nameVars, graphVars, concVars, seedVars>>

\* line 150 when get_vr raises: nothing in walk or resolve_tree_online
\* catches the exception, so it leaves every walk on the stack and
\* resolve_tree_online itself; lines and warnings are locals of the call
\* that was left
Raised(ico, depth) ==
    [f |-> "raised", ico |-> ico, depth |-> depth, mult |-> ROne, via |-> 0,
     hdr |-> 0, items |-> <<>>]
WalkRaised ==
    /\ wk_stack # <<>> /\ IsNone(wk_persons)
    /\ Top.f = "call"
    /\ ~TooDeep(Top.depth, wk_world.max_depth)
    /\ LET r == WalkGetVr(ClientState, wk_world, Top.ico)
       IN  r.raised /\ SetClient(r.cs)
    /\ wk_stack' = <<Raised(Top.ico, Top.depth)>>
    /\ UNCHANGED <<wk_world, wk_runs, wk_lines, wk_warnings, wk_persons, extractVars, uboVars, parseVars, nameVars, graphVars, concVars, seedVars>>

\* line 208: the label line of a group
WalkLabel ==
    /\ wk_stack # <<>> /\ IsNone(wk_persons)
    /\ Top.f = "loop" /\ Head(Top.items).i = "label"
    /\ wk_lines' = Append(wk_lines,
           NodeLine(Top.depth + 1, Head(Top.items).label,
                    <<Tok(Head(Top.items).label), Tok(":")>>, None,
                    "label", Top.mult, None, 0, Top.hdr))
    /\ wk_stack' = Settle(Advance)
    /\ UNCHANGED <<wk_world, wk_runs, wk_warnings, wk_persons, clientVars, extractVars, uboVars, parseVars, nameVars, graphVars, concVars, seedVars>>

\* lines 212-224: the local share and the "efektivne" share of an owner
LocalShare(o) ==
    IF IsSome(o.share_pct) THEN Some(RDiv(The(o.share_pct), RHundred))
    ELSE IF IsSome(o.share_raw) THEN parse_pct_from_text(The(o.share_raw))
    ELSE None
EffShare(o) == parse_effective_from_text(IF IsSome(o.share_raw) THEN The(o.share_raw) ELSE <<>>)
\* line 227
IsCompanyOwner(o) == o.kind = "COMPANY" /\ IsSome(o.ico)
\* lines 229-237 and 257-281: effective_pct of an owner line
EffPct(m, ls, es) ==
    IF IsSome(ls) THEN Some(RMul(RMul(m, The(ls)), RHundred))
    ELSE IF IsSome(es) THEN Some(RMul(The(es), RHundred))
    ELSE None
\* lines 248-253: the multiplier handed to the child company
NextMultLocalOnly(m, ls, es) ==
    IF IsSome(ls) THEN The(ls) ELSE IF IsSome(es) THEN The(es) ELSE m
NextMult(m, ls, es) ==
    IF IsSome(ls) THEN RMul(m, The(ls)) ELSE IF IsSome(es) THEN The(es) ELSE m
RawOrQ(o) == IF IsSome(o.share_raw) THEN The(o.share_raw) ELSE <<Tok("?")>>
\* lines 229-245
CompanyLineText(o, ls) ==
    o.name \o Dash
        \o (IF IsSome(ls) THEN Fmt2(RMul(The(ls), RHundred)) \o <<Tok("%")>> ELSE RawOrQ(o))
        \o IcoSuffix(The(o.ico))
Efektivne(pct) == <<Ws, Tok("("), Tok("efektivne"), Ws>> \o Fmt2(pct) \o <<Tok("%"), Tok(")")>>
\* lines 257-284
PersonLineText(o, m, ls, es) ==
    IF IsSome(ls) THEN
        o.name \o Dash \o Fmt2(RMul(The(ls), RHundred)) \o <<Tok("%")>>
            \o Efektivne(RMul(RMul(m, The(ls)), RHundred))
    ELSE IF IsSome(es) THEN
        o.name \o Dash
            \o (IF IsSome(o.share_pct) THEN Fmt2(The(o.share_pct)) \o <<Tok("%")>> ELSE RawOrQ(o))
            \o Efektivne(RMul(The(es), RHundred))
    ELSE o.name \o (IF IsSome(o.share_raw) THEN Dash \o The(o.share_raw) ELSE <<>>)

\* line 255: the depth of the walk called for a company owner
ChildDepthBelowOwner(depth) == depth + 2
ChildDepth(depth) == depth + 3
\* lines 227-255: a company owner: its line, then walk(o.ico, depth + 3, next_mult)
CompanyOwnerStep(o, ls, es) ==
    /\ IsCompanyOwner(o)
    /\ wk_lines' = Append(wk_lines,
           NodeLine(Top.depth + 2, o.label, CompanyLineText(o, ls),
                    EffPct(Top.mult, ls, es), "company", Top.mult, ls, 0, Top.hdr))
    /\ wk_stack' = Append(Advance,
           Call(The(o.ico), ChildDepth(Top.depth), NextMult(Top.mult, ls, es), Len(wk_lines) + 1))
WalkCompanyOwner ==
    /\ wk_stack # <<>> /\ IsNone(wk_persons)
    /\ Top.f = "loop" /\ Head(Top.items).i = "owner"
    /\ CompanyOwnerStep(Head(Top.items).o, LocalShare(Head(Top.items).o),
                        EffShare(Head(Top.items).o))
    /\ UNCHANGED <<wk_world, wk_runs, wk_warnings, wk_persons, clientVars, extractVars, uboVars, parseVars, nameVars, graphVars, concVars, seedVars>>

\* lines 256-284: any other owner is written as a natural person
PersonOwnerStep(o, ls, es) ==
    /\ ~IsCompanyOwner(o)
    /\ wk_lines' = Append(wk_lines,
           NodeLine(Top.depth + 2, o.label, PersonLineText(o, Top.mult, ls, es),
                    EffPct(Top.mult, ls, es), "person", Top.mult, ls, 0, Top.hdr))
    /\ wk_stack' = Settle(Advance)
WalkPersonOwner ==
    /\ wk_stack # <<>> /\ IsNone(wk_persons)
    /\ Top.f = "loop" /\ Head(Top.items).i = "owner"
    /\ PersonOwnerStep(Head(Top.items).o, LocalShare(Head(Top.items).o),
                       EffShare(Head(Top.items).o))
    /\ UNCHANGED <<wk_world, wk_runs, wk_warnings, wk_persons, clientVars, extractVars, uboVars, parseVars, nameVars, graphVars, concVars, seedVars>>

(***************************************************************************)
(* compute_effective_persons.  src/app.py 578-685                          *)
(* It reads depth, text and effective_pct of each line, nothing else.      *)
(***************************************************************************)
\* ICO_IN_LINE (line 149) at position i: \(ICO\s+\d{7,8}\); the position
\* of the closing parenthesis, or 0
IcoAt(t, i) ==
    IF IsTok(t, i, "(ICO") /\ IsTok(t, i + 1, " ")
    THEN LET j == SkipWs(t, i + 1)
         IN  IF IsNum(t, j) /\ t[j].w \in {7, 8} /\ IsTok(t, j + 1, ")") THEN j + 1 ELSE 0
    ELSE 0
ICO_IN_LINE(t) == \E i \in 1..Len(t) : IcoAt(t, i) # 0
\* RE_COMPANY_HEADER (line 148): ^(.+)\s+\(ICO\s+(\d{7,8})\)\s*$
RE_COMPANY_HEADER(t) ==
    LET u == StripRight(t)
    IN  \E i \in 3..Len(u) : IcoAt(u, i) = Len(u) /\ IsTok(u, i - 1, " ")
\* DASH_SPLIT (line 150): \s+[em dash, en dash, hyphen]\s+ ; where the
\* first match starts, or 0
DashChars == {"--", "-"}
DashAt(t, i) ==
    IsTok(t, i, " ") /\ IsAnyTok(t, SkipWs(t, i), DashChars) /\ IsTok(t, SkipWs(t, i) + 1, " ")
FirstDash(t) ==
    IF \E i \in 1..Len(t) : DashAt(t, i)
    THEN CHOOSE i \in 1..Len(t) : DashAt(t, i) /\ \A j \in 1..(i - 1) : ~DashAt(t, j)
    ELSE 0
\* lines 610-611
OwnerNameOf(t) ==
    IF FirstDash(t) = 0 THEN Strip(t) ELSE Strip(SubSeq(t, 1, FirstDash(t) - 1))
\* t.endswith(":")
IsLabelLine(t) == t # <<>> /\ t[Len(t)].k = ":"

\* the "efektivne X %" of a line text: X / 100, not clamped (lines 633, 654)
FirstEfektivne(ms) == IF ms = <<>> THEN None ELSE Some(RDiv(Head(ms).a, RHundred))
EfektivneOfLine(t) == FirstEfektivne(FindAll(EFEKTIVNE_RE, t, 1))

RECURSIVE PopWhile(_, _, _)
\* while header_stack and header_stack[-1][0] >= depth (strict: > depth)
PopWhile(stack, depth, strict) ==
    IF stack # <<>> /\ (stack[Len(stack)].depth > depth
                         \/ (~strict /\ stack[Len(stack)].depth = depth))
    THEN PopWhile(SubSeq(stack, 1, Len(stack) - 1), depth, strict)
    ELSE stack
ParentMult(stack) == IF stack = <<>> THEN ROne ELSE stack[Len(stack)].mult
ParentDepth(stack) == IF stack = <<>> THEN 0 ELSE stack[Len(stack)].depth

\* line 621: node_eff
NodeEff(ln) ==
    IF IsSome(ln.effective_pct) THEN Some(RDiv(The(ln.effective_pct), RHundred)) ELSE None

\* lines 626-640: the local share of a company line
CompanyLocalShareOf(node_eff, parsed, efektivne, parent_mult) ==
    IF IsSome(node_eff) /\ RLt(RZero, parent_mult)
    THEN Some(RDiv(The(node_eff), parent_mult))
    ELSE IF IsSome(parsed) THEN parsed
    ELSE IF IsSome(efektivne) /\ RLt(RZero, parent_mult)
    THEN Some(RDiv(The(efektivne), parent_mult))
    ELSE None
CompanyLocalShare(ln, parent_mult) ==
    CompanyLocalShareOf(NodeEff(ln), parse_pct_from_text(ln.text), EfektivneOfLine(ln.text),
                        parent_mult)

\* lines 646-660: the effective share a person line adds
PersonEffOf(node_eff, parsed, efektivne, parent_mult) ==
    IF IsSome(node_eff) THEN node_eff
    ELSE IF IsSome(parsed) THEN Some(RMul(parent_mult, The(parsed)))
    ELSE efektivne
PersonEff(ln, parent_mult) ==
    PersonEffOf(NodeEff(ln), parse_pct_from_text(ln.text), EfektivneOfLine(ln.text), parent_mult)

\* lines 662-664: entry["ownership"] += eff
AccumulateLast(total, eff) == eff
Accumulate(total, eff) == RAdd(total, eff)

\* lines 643, 662-667: the record of `name' after one more person line
AddPath(persons, name, parent_depth, eff, t) ==
    LET at == {i \in 1..Len(persons) : persons[i].name = name}
        ps == IF at = {} THEN Append(persons, [name |-> name, ownership |-> RZero,
                                               voting |-> RZero, paths |-> <<>>])
              ELSE persons
        i == CHOOSE j \in 1..Len(ps) : ps[j].name = name
    IN  [ps EXCEPT ![i] =
            [name |-> name,
             ownership |-> IF IsSome(eff) THEN Accumulate(@.ownership, The(eff)) ELSE @.ownership,
             voting |-> IF IsSome(eff) THEN Accumulate(@.voting, The(eff)) ELSE @.voting,
             paths |-> Append(@.paths, [parent_depth |-> parent_depth, eff |-> eff, text |-> t])]]

\* one iteration of the loop of lines 590-676 on the state
\* st = [stack, pending, persons]
\* lines 597-602: a header line
HeaderLine(st, ln, popped) ==
    [st EXCEPT !.stack = Append(popped,
                   [depth |-> ln.depth,
                    mult |-> IF IsSome(st.pending) THEN The(st.pending) ELSE ParentMult(popped)]),
               !.pending = None]
\* line 643
PendingOf(parent_mult, local_share) ==
    IF IsSome(local_share) THEN Some(RMul(parent_mult, The(local_share))) ELSE None
\* lines 610-680: an owner line, the stack popped to its parent header
OwnerLine(st, ln, popped) ==
    IF ICO_IN_LINE(ln.text)
    THEN [st EXCEPT !.stack = popped,
                    !.pending = PendingOf(ParentMult(popped),
                                          CompanyLocalShare(ln, ParentMult(popped)))]
    ELSE [st EXCEPT !.stack = popped,
                    !.persons = AddPath(@, OwnerNameOf(ln.text), ParentDepth(popped),
                                        PersonEff(ln, ParentMult(popped)), ln.text)]
ComputeLine(st, ln) ==
    IF ln.text = <<>> THEN st
    ELSE IF RE_COMPANY_HEADER(ln.text) THEN HeaderLine(st, ln, PopWhile(st.stack, ln.depth, FALSE))
    ELSE IF IsLabelLine(ln.text) THEN st
    ELSE OwnerLine(st, ln, PopWhile(st.stack, Max(0, ln.depth - 2), TRUE))

RECURSIVE ComputeLines(_, _)
ComputeLines(st, lines) ==
    IF lines = <<>> THEN st ELSE ComputeLines(ComputeLine(st, Head(lines)), Tail(lines))

\* compute_effective_persons: the records, in the order of the dict
\* lines 682-684
ClampPersons(ps) ==
    [i \in 1..Len(ps) |->
        [ps[i] EXCEPT !.ownership = RClamp(@, ROne), !.voting = RClamp(@, ROne)]]
compute_effective_persons(lines) ==
    ClampPersons(ComputeLines([stack |-> <<>>, pending |-> None, persons |-> <<>>], lines).persons)

\* app.py line 1089: the trace is complete, the persons are computed from it
ComputeEffectivePersons ==
    /\ wk_stack = <<>> /\ IsNone(wk_persons)
    /\ wk_persons' = Some(compute_effective_persons(wk_lines))
    /\ UNCHANGED <<wk_world, wk_runs, wk_stack, wk_lines, wk_warnings, clientVars, extractVars, uboVars, parseVars, nameVars, graphVars, concVars, seedVars>>

\* resolve_tree_online(client, root): walk(root_ico, depth=0, parent_multiplier=1.0)
InitWalk ==
    /\ wk_world \in Worlds
    /\ wk_stack = <<Call(Ico("A"), 0, ROne, 0)>>
    /\ wk_lines = <<>>
    /\ wk_warnings = <<>>
    /\ wk_persons = None
    /\ wk_runs = <<>>
    /\ ClientIdle /\ ExtractIdle /\ UboIdle /\ ParseIdle /\ NameIdle /\ OthersIdle

NextWalk ==
    \/ WalkTooDeep
    \/ WalkError
    \/ WalkCompany
    \/ WalkLabel
    \/ WalkCompanyOwner
    \/ WalkPersonOwner
    \/ ComputeEffectivePersons

SpecWalk == InitWalk /\ [][NextWalk]_vars

\* the same walk against a registry that fails for some companies
InitWalkDown ==
    /\ wk_world \in WorldsDown
    /\ wk_stack = <<Call(Ico("A"), 0, ROne, 0)>>
    /\ wk_lines = <<>>
    /\ wk_warnings = <<>>
    /\ wk_persons = None
    /\ wk_runs = <<>>
    /\ ClientIdle /\ ExtractIdle /\ UboIdle /\ ParseIdle /\ NameIdle /\ OthersIdle

NextWalkDown ==
    \/ WalkTooDeep
    \/ WalkError
    \/ WalkRaised
    \/ WalkCompany
    \/ WalkLabel
    \/ WalkCompanyOwner
    \/ WalkPersonOwner
    \/ ComputeEffectivePersons

SpecWalkDown == InitWalkDown /\ [][NextWalkDown]_vars

\* some step of NextWalk can be taken: the walk has a frame left, or the
\* trace is complete and the persons are not computed yet
WalkPending == wk_stack # <<>> \/ IsNone(wk_persons)
\* resolve_tree_online and compute_effective_persons are sequential code: a
\* step that can be taken is taken.  This is weak fairness of NextWalk,
\* with WalkPending for ENABLED <<NextWalk>>_vars.
SpecWalkLive == SpecWalk /\ (<>[]WalkPending => []<><<NextWalk>>_vars)

(***************************************************************************)
(* resolve_tree_online called again with the same root, max_depth and      *)
(* manual_overrides on the same client, whose cache the earlier calls have *)
(* filled.  Between two calls the registry may have changed.               *)
(***************************************************************************)
MaxReruns == 2          \* calls of resolve_tree_online after the first

\* what the registry may hold at the next call
RegistryLater(world) ==
    {[world EXCEPT !.A.owners = <<Na("Q", Pct(100))>>],
     [world EXCEPT !.B = [known |-> TRUE, owners |-> <<Na("Q", Pct(100))>>],
                   !.C.owners = <<Na("Q", Pct(100))>>]}

\* lines 141-142 and 286-287: the call returns (lines, warnings); the next
\* call starts with empty lists and walk(root_ico, depth=0, parent_multiplier=1.0)
Rerun ==
    /\ wk_stack = <<>> /\ IsNone(wk_persons)
    /\ Len(wk_runs) < MaxReruns
    /\ wk_runs' = Append(wk_runs, [lines |-> wk_lines, warnings |-> wk_warnings])
    /\ wk_world' \in RegistryLater(wk_world)
    /\ wk_stack' = <<Call(Ico("A"), 0, ROne, 0)>>
    /\ wk_lines' = <<>>
    /\ wk_warnings' = <<>>
    /\ UNCHANGED <<wk_persons, clientVars, extractVars, uboVars, parseVars, nameVars, graphVars, concVars, seedVars>>

NextRerun ==
    \/ WalkTooDeep
    \/ WalkError
    \/ WalkCompany
    \/ WalkLabel
    \/ WalkCompanyOwner
    \/ WalkPersonOwner
    \/ Rerun

SpecRerun == InitWalk /\ [][NextRerun]_vars

(***************************************************************************)
(* Python floats where a strict comparison decides: IEEE-754 binary64,     *)
(* round to nearest, ties to even.  A positive float is                    *)
(* [m |-> its 53-bit significand, e |-> the exponent of its last bit],     *)
(* zero has m = <<>>.  The significand is a natural number written in      *)
(* limbs of 15 bits, most significant first, without leading zero limbs.   *)
(* Only what the threshold test of the UBO determination computes is here: *)
(* x / 100.0, x + y and x > y on values in [0, 100].                       *)
(***************************************************************************)
Precision == 53
LimbBits == 15
Base == Pow2(LimbBits)
FZero == [m |-> <<>>, e |-> 0]
RECURSIVE StripZeros(_)
StripZeros(b) == IF b # <<>> /\ Head(b) = 0 THEN StripZeros(Tail(b)) ELSE b
BigOf(n) == StripZeros(<<n \div Base, n % Base>>)
RECURSIVE NumBits(_)
NumBits(n) == IF n = 0 THEN 0 ELSE 1 + NumBits(n \div 2)
BitLen(b) == IF b = <<>> THEN 0 ELSE LimbBits * (Len(b) - 1) + NumBits(b[1])
IsOdd(b) == b # <<>> /\ b[Len(b)] % 2 = 1
RECURSIVE BigDivStep(_, _, _, _)
BigDivStep(rest, rem, q, d) ==
    IF rest = <<>> THEN [q |-> StripZeros(q), r |-> rem]
    ELSE BigDivStep(Tail(rest), (rem * Base + Head(rest)) % d,
                    Append(q, (rem * Base + Head(rest)) \div d), d)
\* quotient and remainder of b by a small d (d <= Base)
BigDivMod(b, d) == BigDivStep(b, 0, <<>>, d)
RECURSIVE BigMulStep(_, _, _)
BigMulStep(b, k, carry) ==
    IF b = <<>> THEN BigOf(carry)
    ELSE Append(BigMulStep(SubSeq(b, 1, Len(b) - 1), k, (b[Len(b)] * k + carry) \div Base),
                (b[Len(b)] * k + carry) % Base)
\* b * k for a small k (k <= Base)
BigMulSmall(b, k) == StripZeros(BigMulStep(b, k, 0))
RECURSIVE BigShl(_, _)
\* b * 2^n
BigShl(b, n) ==
    IF b = <<>> \/ n = 0 THEN b
    ELSE IF n >= LimbBits THEN BigShl(Append(b, 0), n - LimbBits)
    ELSE BigMulSmall(b, Pow2(n))
RECURSIVE BigAddStep(_, _, _)
BigAddStep(a, b, carry) ==
    IF a = <<>> THEN <<carry>>
    ELSE Append(BigAddStep(SubSeq(a, 1, Len(a) - 1), SubSeq(b, 1, Len(b) - 1),
                           (a[Len(a)] + b[Len(b)] + carry) \div Base),
                (a[Len(a)] + b[Len(b)] + carry) % Base)
\* a + b
BigAdd(a, b) ==
    LET w == Max(Len(a), Len(b))
    IN  StripZeros(BigAddStep([i \in 1..(w - Len(a)) |-> 0] \o a,
                              [i \in 1..(w - Len(b)) |-> 0] \o b, 0))
RECURSIVE LexGt(_, _)
LexGt(a, b) == a # <<>> /\ (Head(a) > Head(b) \/ (Head(a) = Head(b) /\ LexGt(Tail(a), Tail(b))))
\* a > b
BigGt(a, b) == Len(a) > Len(b) \/ (Len(a) = Len(b) /\ LexGt(a, b))

RECURSIVE RoundBig(_, _, _)
\* the float nearest to q * 2^e (plus a nonzero rest below the last bit of
\* q when sticky), ties to even
RoundBig(q, sticky, e) ==
    IF q = <<>> THEN FZero
    ELSE IF BitLen(q) <= Precision
    THEN [m |-> BigShl(q, Precision - BitLen(q)), e |-> e - (Precision - BitLen(q))]
    ELSE IF BitLen(q) - Precision > LimbBits
    THEN RoundBig(SubSeq(q, 1, Len(q) - 1), sticky \/ q[Len(q)] # 0, e + LimbBits)
    ELSE LET drop == BitLen(q) - Precision
             dm == BigDivMod(q, Pow2(drop))
             half == Pow2(drop - 1)
             up == dm.r > half \/ (dm.r = half /\ (sticky \/ IsOdd(dm.q)))
             kept == IF up THEN BigAdd(dm.q, <<1>>) ELSE dm.q
         IN  IF BitLen(kept) > Precision
             THEN [m |-> BigDivMod(kept, 2).q, e |-> e + drop + 1]
             ELSE [m |-> kept, e |-> e + drop]
\* x / d for a float x and a small integer d (d <= 128), correctly rounded
FDivSmall(x, d) ==
    IF x.m = <<>> THEN FZero
    ELSE LET dm == BigDivMod(BigShl(x.m, 8), d)
         IN  RoundBig(dm.q, dm.r # 0, x.e - 8)
\* x + y
FAdd(x, y) ==
    IF x.m = <<>> THEN y
    ELSE IF y.m = <<>> THEN x
    ELSE LET e0 == Min(x.e, y.e)
         IN  RoundBig(BigAdd(BigShl(x.m, x.e - e0), BigShl(y.m, y.e - e0)), FALSE, e0)
\* x > y
FGt(x, y) ==
    IF x.m = <<>> THEN FALSE
    ELSE IF y.m = <<>> THEN TRUE
    ELSE x.e > y.e \/ (x.e = y.e /\ BigGt(x.m, y.m))
\* float(n) of a natural number n < 2^30
FloatOfNat(n) == RoundBig(BigOf(n), FALSE, 0)
\* the float a number_input holds for a percentage with two decimals, given
\* in hundredths of a percent: float("24.67") for 2467
FloatOfPct(h) == FDivSmall(FloatOfNat(h), 100)
\* x / 100.0
FDiv100(x) == FDivSmall(x, 100)
RECURSIVE FSumFrom(_, _)
FSumFrom(acc, xs) ==
    IF xs = <<>> THEN acc
    ELSE IF acc.m = <<>> THEN FSumFrom(Head(xs), Tail(xs))
    ELSE FSumFrom(FAdd(acc, Head(xs)), Tail(xs))
\* sum(xs): 0 + xs[1] + xs[2] + ...
FSum(xs) == FSumFrom(FZero, xs)

(***************************************************************************)
(* The UBO determination.  src/app.py 1115-1319                            *)
(*                                                                         *)
(* The form holds the persons with the percentages the user left in the    *)
(* number inputs (two decimals, written here in hundredths of a percent),  *)
(* the three check boxes of each person, the members picked for the voting *)
(* block and the threshold.  A Python dict is a sequence of [k, v] in      *)
(* insertion order.  A reason is the tag of the criterion that wrote it.   *)
(***************************************************************************)
DictHas(d, k) == \E i \in 1..Len(d) : d[i].k = k
DictGet(d, k, default) ==
    IF DictHas(d, k) THEN d[CHOOSE i \in 1..Len(d) : d[i].k = k].v ELSE default
\* d[k] = v
DictSet(d, k, v) ==
    IF DictHas(d, k) THEN [i \in 1..Len(d) |-> IF d[i].k = k THEN [k |-> k, v |-> v] ELSE d[i]]
    ELSE Append(d, [k |-> k, v |-> v])
Keys(d) == {d[i].k : i \in 1..Len(d)}

FormPerson(name, cap_pct, vote_pct, veto, org_majority, substitute_ubo) ==
    [name |-> name, cap_pct |-> cap_pct, vote_pct |-> vote_pct, veto |-> veto,
     org_majority |-> org_majority, substitute_ubo |-> substitute_ubo]
\* the value stored for a percentage box: v / 100.0
ShareOfBox(h) == FDiv100(FloatOfPct(h))
\* one entry of final_persons
FinalVals(p) ==
    [cap |-> ShareOfBox(p.cap_pct), vote |-> ShareOfBox(p.vote_pct), veto |-> p.veto,
     org_majority |-> p.org_majority, substitute_ubo |-> p.substitute_ubo]
RECURSIVE FinalPersons(_, _)
\* final_persons: the persons of the registry, then the ones added by hand
FinalPersons(acc, ps) ==
    IF ps = <<>> THEN acc
    ELSE FinalPersons(DictSet(acc, Head(ps).name, FinalVals(Head(ps))), Tail(ps))
\* sum(final_persons.get(n, {"vote": 0.0})["vote"] for n in block_members)
block_total(final, members) ==
    IF members = <<>> THEN FZero
    ELSE FSum([i \in 1..Len(members) |-> DictGet(final, members[i], [vote |-> FZero]).vote])
thr(form) == FDiv100(FloatOfPct(form.threshold_pct))
\* the reasons the loop over final_persons adds for one person, in order
PersonReasons(vals, t) ==
    (IF FGt(vals.cap, t) THEN <<"cap">> ELSE <<>>)
    \o (IF FGt(vals.vote, t) THEN <<"vote">> ELSE <<>>)
    \o (IF vals.veto THEN <<"veto">> ELSE <<>>)
    \o (IF vals.org_majority THEN <<"org_majority">> ELSE <<>>)
    \o (IF vals.substitute_ubo THEN <<"substitute_ubo">> ELSE <<>>)
\* reasons.setdefault(n, []).append(r) for each r of rs
add_reasons(reasons, n, rs) ==
    IF rs = <<>> THEN reasons ELSE DictSet(reasons, n, DictGet(reasons, n, <<>>) \o rs)
RECURSIVE BlockPromote(_, _, _, _)
\* the loop over block_members of lines 1313-1319
BlockPromote(ubo, reasons, final, members) ==
    IF members = <<>> THEN [ubo |-> ubo, reasons |-> reasons]
    ELSE IF DictHas(final, Head(members))
    THEN BlockPromote(DictSet(ubo, Head(members), DictGet(final, Head(members), <<>>)),
                      add_reasons(reasons, Head(members), <<"block">>),
                      final, Tail(members))
    ELSE BlockPromote(ubo, reasons, final, Tail(members))

\* the form is submitted: final_persons is composed
Submit ==
    /\ ub_pc = "form"
    /\ ub_final' = FinalPersons(<<>>, ub_form.persons)
    /\ ub_ubo' = <<>>
    /\ ub_reasons' = <<>>
    /\ ub_i' = 1
    /\ ub_pc' = IF ub_form.persons = <<>> THEN "block" ELSE "loop"
    /\ UNCHANGED <<ub_form, clientVars, extractVars, walkVars, parseVars, nameVars, graphVars, concVars, seedVars>>

\* one iteration of `for n, vals in final_persons.items()'
EvaluatePerson ==
    /\ ub_pc = "loop"
    /\ LET n == ub_final[ub_i].k
           vals == ub_final[ub_i].v
           rs == PersonReasons(vals, thr(ub_form))
       IN  /\ ub_reasons' = add_reasons(ub_reasons, n, rs)
           /\ ub_ubo' = IF rs # <<>> THEN DictSet(ub_ubo, n, vals) ELSE ub_ubo
    /\ ub_i' = ub_i + 1
    /\ ub_pc' = IF ub_i = Len(ub_final) THEN "block" ELSE "loop"
    /\ UNCHANGED <<ub_form, ub_final, clientVars, extractVars, walkVars, parseVars, nameVars, graphVars, concVars, seedVars>>

\* `if block_members and block_total > thr:' and its loop
EvaluateBlock ==
    /\ ub_pc = "block"
    /\ LET r == IF ub_form.block_members # <<>>
                   /\ FGt(block_total(ub_final, ub_form.block_members), thr(ub_form))
                THEN BlockPromote(ub_ubo, ub_reasons, ub_final, ub_form.block_members)
                ELSE [ubo |-> ub_ubo, reasons |-> ub_reasons]
       IN  ub_ubo' = r.ubo /\ ub_reasons' = r.reasons
    /\ ub_pc' = "done"
    /\ UNCHANGED <<ub_form, ub_i, ub_final, clientVars, extractVars, walkVars, parseVars, nameVars, graphVars, concVars, seedVars>>

\* the default threshold of the form, 25.00 %
DefaultThreshold == 2500
\* percentages below, at and above the threshold, and two that add up to it
CapBoxes == {1000, 2500, 2501}
VoteBoxes == {33, 1250, 2467, 2600}
\* at most one of the three boxes of a person is ticked
Boxes == {<<FALSE, FALSE, FALSE>>, <<TRUE, FALSE, FALSE>>,
          <<FALSE, TRUE, FALSE>>, <<FALSE, FALSE, TRUE>>}
Blocks == {<<>>, <<"P">>, <<"P", "Q">>, <<"Q", "P">>}
\* P comes from the registry, Q was added by hand with a capital of 10 %
UboForms ==
    {[persons |-> <<FormPerson("P", c, v, b[1], b[2], b[3]),
                    FormPerson("Q", 1000, w, d[1], d[2], d[3])>>,
      block_members |-> m, threshold_pct |-> DefaultThreshold] :
        c \in CapBoxes, v \in VoteBoxes, w \in VoteBoxes, b \in Boxes, d \in Boxes, m \in Blocks}

InitUbo ==
    /\ ub_form \in UboForms
    /\ ub_pc = "form" /\ ub_i = 0
    /\ ub_final = <<>> /\ ub_ubo = <<>> /\ ub_reasons = <<>>
    /\ ClientIdle /\ ExtractIdle /\ WalkIdle /\ ParseIdle /\ NameIdle /\ OthersIdle

NextUbo ==
    \/ Submit
    \/ EvaluatePerson
    \/ EvaluateBlock

SpecUbo == InitUbo /\ [][NextUbo]_vars

(***************************************************************************)
(* The UBO form as it is built from the aggregated persons.                *)
(* src/app.py 1164-1258                                                    *)
(***************************************************************************)
\* float(f"{x:.2f}") of a percentage x >= 0, in hundredths
Round2(x) ==
    LET num == 100 * x[1]
        q == num \div x[2]
        r == num % x[2]
    IN  IF 2 * r > x[2] \/ (2 * r = x[2] /\ q % 2 = 1) THEN q + 1 ELSE q
\* lines 1186-1202: the value a percentage box of a registry person shows:
\* the stored override, or the aggregated share, times 100, with two decimals
BoxDefault(override, share) ==
    IF IsSome(override) THEN The(override) ELSE Round2(RMul(share, RHundred))
\* lines 1181-1216: the row of a registry person, submitted as shown
RegistryRow(r) ==
    FormPerson(r.name, BoxDefault(r.cap_override, r.ownership),
               BoxDefault(r.vote_override, r.voting), r.veto, r.org_majority, r.substitute_ubo)

\* the form is shown and left as it is: the boxes hold their defaults
RenderForm ==
    /\ ub_pc = "render"
    /\ ub_form' = [ub_form EXCEPT
           !.persons = [i \in 1..Len(ub_form.registry) |-> RegistryRow(ub_form.registry[i])]
                           \o ub_form.manual]
    /\ ub_pc' = "form"
    /\ UNCHANGED <<ub_i, ub_final, ub_ubo, ub_reasons, clientVars, extractVars, walkVars, parseVars, nameVars, graphVars, concVars, seedVars>>

\* what compute_effective_persons gave for a person (voting = ownership),
\* the overrides stored for it and the boxes ticked in its row
RegistryPerson(name, share, cap_override, vote_override, b) ==
    [name |-> name, ownership |-> share, voting |-> share,
     cap_override |-> cap_override, vote_override |-> vote_override,
     veto |-> b[1], org_majority |-> b[2], substitute_ubo |-> b[3]]
\* aggregated shares around the threshold: 24.996 %, 25 %, 25.004 %,
\* 25.006 %, a third and 60 %
AggregatedShares ==
    {Rat(24996, 100000), Rat(1, 4), Rat(25004, 100000), Rat(25006, 100000), Rat(1, 3), Rat(3, 5)}
CapOverrides == {None, Some(1000), Some(2600)}
VoteOverrides == {None, Some(2600)}
\* nobody added by hand, a person of its own, or one with the name of a
\* registry person
ManualPersons ==
    {<<>>, <<FormPerson("Q", 1000, 2600, FALSE, TRUE, FALSE)>>,
     <<FormPerson("P", 3000, 500, TRUE, FALSE, FALSE)>>}
TraceForms ==
    {[persons |-> <<>>, block_members |-> <<>>, threshold_pct |-> DefaultThreshold,
      registry |-> <<RegistryPerson("P", x, c, v, b)>>, manual |-> m] :
        x \in AggregatedShares, c \in CapOverrides, v \in VoteOverrides,
        b \in Boxes, m \in ManualPersons}

InitForm ==
    /\ ub_form \in TraceForms
    /\ ub_pc = "render" /\ ub_i = 0
    /\ ub_final = <<>> /\ ub_ubo = <<>> /\ ub_reasons = <<>>
    /\ ClientIdle /\ ExtractIdle /\ WalkIdle /\ ParseIdle /\ NameIdle /\ OthersIdle

NextForm ==
    \/ RenderForm
    \/ Submit
    \/ EvaluatePerson
    \/ EvaluateBlock

SpecForm == InitForm /\ [][NextForm]_vars

(***************************************************************************)
(* The comparison of person names with the ESM extract.                    *)
(* src/app.py 203-245 and 1412-1421                                        *)
(*                                                                         *)
(* A name is a sequence of tokens: a word [k |-> "w", base, acc, cap] with *)
(* its letters in lower case without diacritics (base), whether it is     *)
(* written with diacritics (acc) and how it is capitalised (cap: "l"      *)
(* lower, "T" title, "U" upper); or one character ".", ",", " " or a tab  *)
(* ("TAB").  A title of TITLES_PREFIX / TITLES_SUFFIX is the sequence of   *)
(* its lexemes in lower case: words, "." and " ".                          *)
(***************************************************************************)
W(base, acc, cap) == [k |-> "w", base |-> base, acc |-> acc, cap |-> cap]
Ch(c) == [k |-> c, base |-> "", acc |-> FALSE, cap |-> "l"]
IsWordTok(t, i) == i \in 1..Len(t) /\ t[i].k = "w"
IsSpaceTok(t, i) == i \in 1..Len(t) /\ t[i].k \in {" ", "TAB"}
IsDotTok(t, i) == i \in 1..Len(t) /\ t[i].k = "."

RECURSIVE SkipSpace(_, _)
\* \s* : the first position at or after i that holds no white space
SkipSpace(t, i) == IF IsSpaceTok(t, i) THEN SkipSpace(t, i + 1) ELSE i
RECURSIVE StripNameRight(_)
StripNameRight(t) ==
    IF t # <<>> /\ IsSpaceTok(t, Len(t)) THEN StripNameRight(SubSeq(t, 1, Len(t) - 1)) ELSE t
\* str.strip()
StripName(t) == StripNameRight(SubSeq(t, SkipSpace(t, 1), Len(t)))

Dotted(w) == <<w, ".">>
Bare(w) == <<w>>
\* lines 203-218
TITLES_PREFIX ==
    <<Dotted("ing"), Bare("ing"), <<"ing", ".", " ", "arch", ".">>, <<"ing", " ", "arch">>,
      <<"ing", ".", "arch", ".">>,
      Dotted("mgr"), Bare("mgr"), Dotted("bc"), Bare("bc"), Dotted("judr"), Bare("judr"),
      Dotted("mudr"), Bare("mudr"), Dotted("phdr"), Bare("phdr"), Dotted("rndr"), Bare("rndr"),
      Dotted("doc"), Bare("doc"), Dotted("doc"), Bare("doc"),
      Dotted("prof"), Bare("prof"), Dotted("prof"), Bare("prof"),
      Dotted("phmr"), Bare("phmr"), Dotted("mddr"), Bare("mddr"), Dotted("mvdr"), Bare("mvdr"),
      Dotted("thdr"), Bare("thdr"), Dotted("thlic"), Bare("thlic")>>
\* lines 219-223
TITLES_SUFFIX ==
    <<Bare("mba"), <<"ll", ".", "m", ".">>, <<"ll", ".", "m">>, <<"ph", ".", "d", ".">>,
      Bare("phd"), Dotted("dis"), Bare("dis"), Dotted("csc"), Bare("csc"), Bare("dba"),
      Dotted("msc"), Bare("msc"), Bare("ba"), Bare("bba"), Bare("llb"), Bare("ma"),
      Bare("acca"), Bare("cfa")>>

\* re.escape(t) with re.IGNORECASE, one lexeme against one token: a letter
\* of a title matches the same letter in either case, never an accented one
LexemeMatches(tok, lex) ==
    IF lex \in {".", " "} THEN tok.k = lex
    ELSE tok.k = "w" /\ tok.base = lex /\ ~tok.acc
\* \b between token j and token j + 1: a word character on one side only
WordBoundary(t, j) == IsWordTok(t, j) # IsWordTok(t, j + 1)
\* re.escape(title) \b \.? at position i: the number of tokens matched, or 0
TitleAt(t, i, title) ==
    IF /\ i + Len(title) - 1 <= Len(t)
       /\ \A k \in 1..Len(title) : LexemeMatches(t[i + k - 1], title[k])
       /\ WordBoundary(t, i + Len(title) - 1)
    THEN (IF IsDotTok(t, i + Len(title)) THEN Len(title) + 1 ELSE Len(title))
    ELSE 0
RECURSIVE AnyTitleAt(_, _, _)
\* (T1|T2|...) \b \.? at position i: the first alternative that matches
AnyTitleAt(t, i, titles) ==
    IF titles = <<>> THEN 0
    ELSE IF TitleAt(t, i, Head(titles)) > 0 THEN TitleAt(t, i, Head(titles))
    ELSE AnyTitleAt(t, i, Tail(titles))
\* line 231: ,\s*(suffixes)\b\.? at position i
CommaSuffixAt(t, i) ==
    IF i <= Len(t) /\ t[i].k = "," /\ AnyTitleAt(t, SkipSpace(t, i + 1), TITLES_SUFFIX) > 0
    THEN SkipSpace(t, i + 1) - i + AnyTitleAt(t, SkipSpace(t, i + 1), TITLES_SUFFIX)
    ELSE 0
RECURSIVE RemoveCommaSuffixes(_, _)
RemoveCommaSuffixes(t, i) ==
    IF i > Len(t) THEN <<>>
    ELSE IF CommaSuffixAt(t, i) > 0 THEN RemoveCommaSuffixes(t, i + CommaSuffixAt(t, i))
    ELSE <<t[i]>> \o RemoveCommaSuffixes(t, i + 1)
RECURSIVE RemoveTitle(_, _, _)
\* line 233: re.sub(\b title \b \.?, "", s)
RemoveTitle(t, i, title) ==
    IF i > Len(t) THEN <<>>
    ELSE IF WordBoundary(t, i - 1) /\ TitleAt(t, i, title) > 0
    THEN RemoveTitle(t, i + TitleAt(t, i, title), title)
    ELSE <<t[i]>> \o RemoveTitle(t, i + 1, title)
RECURSIVE RemoveSuffixTitles(_, _)
\* lines 232-233: for t in TITLES_SUFFIX
RemoveSuffixTitles(t, titles) ==
    IF t = <<>> \/ titles = <<>> THEN t
    ELSE RemoveSuffixTitles(RemoveTitle(t, 1, Head(titles)), Tail(titles))
\* line 236: re.sub(^\s* title \b \.? \s*, "", s)
StripPrefix(t, title) ==
    IF TitleAt(t, SkipSpace(t, 1), title) > 0
    THEN SubSeq(t, SkipSpace(t, SkipSpace(t, 1) + TitleAt(t, SkipSpace(t, 1), title)), Len(t))
    ELSE t
RECURSIVE RemovePrefixTitlesOnce(_, _)
\* lines 235-236: for t in TITLES_PREFIX, each title tried once, in list order
RemovePrefixTitlesOnce(t, titles) ==
    IF t = <<>> \/ titles = <<>> THEN t
    ELSE RemovePrefixTitlesOnce(StripPrefix(t, Head(titles)), Tail(titles))
RECURSIVE CollapseSpace(_, _)
\* re.sub(r"\s+", " ", s)
CollapseSpace(t, i) ==
    IF i > Len(t) THEN <<>>
    ELSE IF IsSpaceTok(t, i) THEN <<Ch(" ")>> \o CollapseSpace(t, SkipSpace(t, i))
    ELSE <<t[i]>> \o CollapseSpace(t, i + 1)

\* _remove_titles, lines 228-238
_remove_titles(name) ==
    StripName(CollapseSpace(
        RemovePrefixTitlesOnce(
            RemoveSuffixTitles(RemoveCommaSuffixes(StripName(name), 1), TITLES_SUFFIX),
            TITLES_PREFIX), 1))
\* _strip_accents, line 225: the combining marks are dropped
_strip_accents(t) == [i \in 1..Len(t) |-> [t[i] EXCEPT !.acc = FALSE]]
\* str.lower()
Lower(t) == [i \in 1..Len(t) |-> [t[i] EXCEPT !.cap = "l"]]
\* _norm_name_person, lines 240-245
_norm_name_person(s) ==
    CollapseSpace(Lower(_strip_accents(_remove_titles(StripName(s)))), 1)

\* lines 1417-1418: { _norm_name_person(n): n for n in ... }: the keys, and
\* the name a key maps to (the last one with that key)
KeysOf(names) == {_norm_name_person(names[i]) : i \in 1..Len(names)}
NameOfKey(names, key) ==
    names[CHOOSE i \in 1..Len(names) :
              /\ _norm_name_person(names[i]) = key
              /\ \A j \in (i + 1)..Len(names) : _norm_name_person(names[j]) # key]
\* lines 1420-1421
NotIn(names, ours, theirs) == {NameOfKey(names, k) : k \in ours \ theirs}

\* the names the two sides hold: one person written in several ways, and
\* two other persons
Jan == W("jan", FALSE, "T")
Novak == W("novak", TRUE, "T")
Sp == Ch(" ")
JanNovak == <<Jan, Sp, Novak>>
Ing == <<W("ing", FALSE, "T"), Ch("."), Sp>>
Mgr == <<W("mgr", FALSE, "T"), Ch("."), Sp>>
PhD == <<W("ph", FALSE, "T"), Ch("."), W("d", FALSE, "U"), Ch(".")>>
NamesOfJan ==
    { JanNovak,
      <<W("jan", FALSE, "l"), Sp, W("novak", FALSE, "l")>>,
      <<Sp, W("jan", FALSE, "U"), Sp, Ch("TAB"), Sp, W("novak", FALSE, "U"), Sp>>,
      Ing \o JanNovak,
      <<W("ing", FALSE, "T"), Sp>> \o JanNovak,
      Mgr \o Ing \o JanNovak,
      Ing \o Mgr \o JanNovak,
      <<W("ing", FALSE, "T"), Ch("."), Sp, W("arch", FALSE, "l"), Ch("."), Sp>> \o JanNovak,
      <<W("doc", FALSE, "l"), Ch("."), Sp>> \o JanNovak \o <<Ch(","), Sp, W("csc", FALSE, "T"), Ch(".")>>,
      JanNovak \o <<Ch(","), Sp>> \o PhD,
      JanNovak \o <<Ch(","), Sp, W("phd", FALSE, "T")>>,
      JanNovak \o <<Sp, W("mba", FALSE, "U")>>,
      Ing \o JanNovak \o <<Ch(","), Sp, W("mba", FALSE, "U")>>,
      JanNovak \o <<Ch(","), Sp, W("ll", FALSE, "U"), Ch("."), W("m", FALSE, "U"), Ch(".")>> }
PetrDvorak == <<W("petr", FALSE, "T"), Sp, W("dvorak", TRUE, "T")>>
EvaMala == <<W("eva", FALSE, "T"), Sp, W("mala", TRUE, "T")>>
EvaMalaPlain == <<W("eva", FALSE, "U"), Sp, W("mala", FALSE, "U")>>
OurNames == {<<n>> : n \in NamesOfJan} \cup {<<n, EvaMala>> : n \in NamesOfJan}
EsmNames ==
    {<<n>> : n \in NamesOfJan \cup {PetrDvorak}}
        \cup {<<n, EvaMalaPlain>> : n \in NamesOfJan \cup {PetrDvorak}}

\* lines 1417-1421: the comparison of the two lists of names
CompareNames ==
    /\ IsNone(nm_out)
    /\ nm_out' = Some([missing_in_esm |-> NotIn(nm_ours, KeysOf(nm_ours), KeysOf(nm_esm)),
                       extra_in_esm |-> NotIn(nm_esm, KeysOf(nm_esm), KeysOf(nm_ours))])
    /\ UNCHANGED <<nm_ours, nm_esm, clientVars, extractVars, walkVars, uboVars, parseVars, graphVars, concVars, seedVars>>

InitNames ==
    /\ nm_ours \in OurNames
    /\ nm_esm \in EsmNames
    /\ nm_out = None
    /\ ClientIdle /\ ExtractIdle /\ WalkIdle /\ UboIdle /\ ParseIdle /\ OthersIdle

NextNames == CompareNames

SpecNames == InitNames /\ [][NextNames]_vars

(***************************************************************************)
(* build_graphviz_from_nodelines_bfs.  src/graphviz_render.py 59-344       *)
(* The graph is its set of nodes and its set of edges; ranks, shapes and   *)
(* edge labels are left out.  A company node "ICO_<id>" is                 *)
(* [t |-> "ICO", id |-> the id's number], a person node "P_<sha1 of        *)
(* parent:idx:text>" is [t |-> "P", parent, idx, text].                    *)
(***************************************************************************)
CompanyNode(id) == [t |-> "ICO", id |-> id, idx |-> 0, text |-> <<>>]
PersonNode(parent, idx, text) == [t |-> "P", id |-> parent, idx |-> idx, text |-> text]

\* lines 268-271: a line "<label>:" whose label is one of the three known
StructuralLabels == {"Spolecnici", "Akcionari", "Manualne doplneno"}
IsStructuralLabel(t) ==
    IsLabelLine(t) /\ Len(Strip(SubSeq(t, 1, Len(t) - 1))) = 1
        /\ Strip(SubSeq(t, 1, Len(t) - 1))[1].k \in StructuralLabels

\* ICO_IN_LINE.search (line 229): where the first match starts, or 0
FirstIco(t) ==
    IF ICO_IN_LINE(t)
    THEN CHOOSE i \in 1..Len(t) : IcoAt(t, i) # 0 /\ \A j \in 1..(i - 1) : IcoAt(t, j) = 0
    ELSE 0
\* lines 222-241: None, or Some of the owner's id; the part before
\* "(ICO ...)" must split at a dash
parse_company_owner_line(t) ==
    IF FirstIco(t) = 0 THEN None
    ELSE IF FirstDash(Strip(SubSeq(t, 1, FirstIco(t) - 1))) = 0 THEN None
    ELSE Some(t[IcoAt(t, FirstIco(t)) - 1].n)
\* RE_COMPANY_HEADER (line 13): ^(.+)\s+\(ICO\s+(\d{8})\)\s*$
GraphHeader(t) ==
    LET u == StripRight(t)
    IN  \E i \in 3..Len(u) :
            IcoAt(u, i) = Len(u) /\ IsTok(u, i - 1, " ") /\ u[Len(u) - 1].w = 8
\* lines 253-258: the company on the stack with the greatest depth < depth
HasParent(stack, depth) == \E e \in stack : e.d < depth
find_parent_company(stack, depth) ==
    CHOOSE e \in stack : e.d < depth /\ \A f \in stack : f.d < depth => f.d <= e.d
\* lines 116-124
record_edge(edges, u, v) == IF u = v THEN edges ELSE edges \cup {<<u, v>>}

\* lines 274-288: a company-owner line
GraphCompanyOwner(g, depth, owner) ==
    IF ~HasParent(g.stack, depth) THEN g
    ELSE [g EXCEPT !.nodes = @ \cup {CompanyNode(owner)},
                   !.edges = record_edge(@, CompanyNode(find_parent_company(g.stack, depth).id),
                                         CompanyNode(owner))]
\* lines 291-311: a company header
GraphCompanyHeader(g, depth, id) ==
    [nodes |-> g.nodes \cup {CompanyNode(id)},
     edges |-> IF HasParent(g.stack, depth)
               THEN record_edge(g.edges, CompanyNode(find_parent_company(g.stack, depth).id),
                                CompanyNode(id))
               ELSE g.edges,
     stack |-> {e \in g.stack : e.d < depth} \cup {[d |-> depth, id |-> id]}]
\* lines 314-327: any other line is a person
GraphPerson(g, depth, idx, t) ==
    IF ~HasParent(g.stack, depth) THEN g
    ELSE LET parent == find_parent_company(g.stack, depth).id
         IN  [g EXCEPT !.nodes = @ \cup {PersonNode(parent, idx, t)},
                       !.edges = record_edge(@, CompanyNode(parent), PersonNode(parent, idx, t))]
\* lines 261-327: one round of the loop; t is the stripped text
GraphLine(g, depth, idx, t) ==
    IF t = <<>> \/ IsStructuralLabel(t) THEN g
    ELSE IF IsSome(parse_company_owner_line(t))
    THEN GraphCompanyOwner(g, depth, The(parse_company_owner_line(t)))
    ELSE IF GraphHeader(t) THEN GraphCompanyHeader(g, depth, t[Len(t) - 1].n)
    ELSE GraphPerson(g, depth, idx, t)
RECURSIVE GraphLines(_, _, _)
GraphLines(g, lines, i) ==
    IF i > Len(lines) THEN g
    ELSE GraphLines(GraphLine(g, lines[i].depth, i - 1, Strip(lines[i].text)), lines, i + 1)
build_graphviz_from_nodelines_bfs(lines) ==
    GraphLines([nodes |-> {}, edges |-> {}, stack |-> {}], lines, 1)

\* the graph of the trace resolve_tree_online returned
BuildGraph ==
    /\ wk_stack = <<>> /\ IsNone(gv_graph)
    /\ gv_graph' = Some(build_graphviz_from_nodelines_bfs(wk_lines))
    /\ UNCHANGED <<clientVars, extractVars, walkVars, uboVars, parseVars, nameVars, concVars, seedVars>>

\* registries for the graph: a sole shareholder listed under its own
\* heading, a company that owns itself, a company owned along two paths,
\* a cycle, a company not in the registry
GraphWorlds ==
    [A : [known : {TRUE},
          owners : {<<Co("B", Pct(50)), Na("P", Pct(50))>>,
                    <<Na("Q", Pct(10)), Co("B", SoleNamed)>>,
                    <<Co("A", Pct(50)), Na("P", Pct(50))>>,
                    <<Co("B", Pct(30)), Co("C", Pct(30))>>,
                    <<Na("P", Sole)>>}],
     B : [known : {TRUE}, owners : OwnersB] \cup {[known |-> FALSE, owners |-> <<>>]},
     C : [known : {TRUE}, owners : OwnersC],
     manual : Overrides,
     max_depth : {3, MaxDepth},
     down : {{}}]

InitGraph ==
    /\ wk_world \in GraphWorlds
    /\ wk_stack = <<Call(Ico("A"), 0, ROne, 0)>>
    /\ wk_lines = <<>>
    /\ wk_warnings = <<>>
    /\ wk_persons = None
    /\ wk_runs = <<>>
    /\ gv_graph = None
    /\ ClientIdle /\ ExtractIdle /\ UboIdle /\ ParseIdle /\ NameIdle /\ ConcIdle /\ SeedIdle

NextGraph ==
    \/ WalkTooDeep
    \/ WalkError
    \/ WalkCompany
    \/ WalkLabel
    \/ WalkCompanyOwner
    \/ WalkPersonOwner
    \/ BuildGraph

SpecGraph == InitGraph /\ [][NextGraph]_vars

(***************************************************************************)
(* get_vr calls that run at the same time, in threads or processes, each   *)
(* with a connection of its own to the same cache file.                    *)
(* src/ares_vr_client.py 84-161                                            *)
(*                                                                         *)
(* A call is cut at its accesses to what the calls share: the SELECT of    *)
(* _cache_get, the reading of the clock in _cache_put (line 149) and its   *)
(* INSERT ... ON CONFLICT statement with the commit (lines 150-161), which *)
(* SQLite runs as one transaction.  What a call does on its own between    *)
(* two of them belongs to the step of the next access.  The sleeps of the  *)
(* rate limit and the backoff do not touch the table and are left out; the *)
(* clock moves on with each reading.  cc_writes keeps, for each id, what   *)
(* the put committed last handed to the statement, and whether the row it  *)
(* found had a later timestamp.                                            *)
(***************************************************************************)
Procs == {1, 2}
ConcCalls == 3          \* get_vr calls started, all threads and processes together
ConcIcos == {Ico("A"), Ico("B")}
ConcCodes == {"200", "404", "503"}

ProcIdle(calls) ==
    [pc |-> "idle", calls |-> calls, ico |-> <<>>, attempt |-> 0, payload |-> PyNone, ts |-> 0]
Proc(p) == cc_procs[p]
CallsStarted == Proc(1).calls + Proc(2).calls
SetProc(p, rec) == cc_procs' = [cc_procs EXCEPT ![p] = rec]

\* lines 84-94: get_vr(ico, force_refresh) is called and reads the cache; a
\* hit is returned
ConcStart(p) ==
    /\ Proc(p).pc = "idle" /\ CallsStarted < ConcCalls
    /\ \E ico \in ConcIcos, force \in BOOLEAN :
           SetProc(p, IF ServeFromCache(force, _cache_get(ares_vr_cache, norm_ico(ico)))
                      THEN ProcIdle(Proc(p).calls + 1)
                      ELSE [Proc(p) EXCEPT !.pc = "request", !.calls = @ + 1,
                                           !.ico = norm_ico(ico)])
    /\ UNCHANGED <<ares_vr_cache, now, cc_writes>>

\* lines 124-134: an attempt failed: the next one, or the RuntimeError
ConcFailed(p) ==
    SetProc(p, IF LoopExhausted(Proc(p).attempt) THEN ProcIdle(Proc(p).calls)
               ELSE [Proc(p) EXCEPT !.pc = "request", !.attempt = @ + 1])

\* lines 103-122 and 149: a request is answered with a payload to keep, and
\* _cache_put reads the clock
ConcRespond(p) ==
    /\ Proc(p).pc = "request"
    /\ \E code \in ConcCodes :
           /\ IsSuccess(code) \/ IsDefinitiveAbsence(code)
           /\ SetProc(p, [Proc(p) EXCEPT !.pc = "exec", !.ts = now,
                  !.payload = IF IsSuccess(code) THEN Body(Proc(p).ico, 1)
                              ELSE ErrorRecord(code, Proc(p).ico)])
    /\ now' = now + 1
    /\ UNCHANGED <<ares_vr_cache, cc_writes>>

\* lines 124-134: a request fails
ConcRequestFails(p) ==
    /\ Proc(p).pc = "request"
    /\ \E code \in ConcCodes : ~IsSuccess(code) /\ ~IsDefinitiveAbsence(code)
    /\ ConcFailed(p)
    /\ UNCHANGED <<ares_vr_cache, now, cc_writes>>

\* lines 150-161: the upsert is committed; get_vr returns the payload
ConcExec(p) ==
    /\ Proc(p).pc = "exec"
    /\ ares_vr_cache' = _cache_put(ares_vr_cache, Proc(p).ico, Proc(p).payload, Proc(p).ts)
    /\ cc_writes' = [cc_writes EXCEPT ![Proc(p).ico] =
           <<[proc |-> p, ico |-> Proc(p).ico, payload |-> Proc(p).payload, ts |-> Proc(p).ts,
              late |-> \E r \in Rows(ares_vr_cache, Proc(p).ico) : Proc(p).ts < r.fetched_at]>>]
    /\ SetProc(p, ProcIdle(Proc(p).calls))
    /\ UNCHANGED now

\* lines 150-161 when the database is locked by another writer for longer
\* than the timeout: sqlite3.OperationalError, caught at line 128 like a
\* failed request
ConcLocked(p) ==
    /\ Proc(p).pc = "exec"
    /\ \E q \in Procs : q # p /\ Proc(q).pc = "exec"
    /\ ConcFailed(p)
    /\ UNCHANGED <<ares_vr_cache, now, cc_writes>>

\* the thread or process is stopped in the middle of a call
ConcKill(p) ==
    /\ Proc(p).pc \in {"request", "exec"}
    /\ SetProc(p, [Proc(p) EXCEPT !.pc = "dead"])
    /\ UNCHANGED <<ares_vr_cache, now, cc_writes>>

InitConc ==
    /\ ares_vr_cache = {}
    /\ last_request_ts = 0
    /\ now = 1
    /\ cl_pc = "idle" /\ cl_call = NoCall /\ cl_hist = <<>>
    /\ cc_procs = [p \in Procs |-> ProcIdle(0)]
    /\ cc_writes = [ico \in ConcIcos |-> <<>>]
    /\ ExtractIdle /\ WalkIdle /\ UboIdle /\ ParseIdle /\ NameIdle /\ GraphIdle /\ SeedIdle

ConcRest ==
    UNCHANGED <<last_request_ts, cl_pc, cl_call, cl_hist, extractVars, walkVars, uboVars,
                parseVars, nameVars, graphVars, seedVars>>

NextConc ==
    \/ \E p \in Procs : ConcStart(p) /\ ConcRest
    \/ \E p \in Procs : ConcRespond(p) /\ ConcRest
    \/ \E p \in Procs : ConcRequestFails(p) /\ ConcRest
    \/ \E p \in Procs : ConcExec(p) /\ ConcRest
    \/ \E p \in Procs : ConcLocked(p) /\ ConcRest
    \/ \E p \in Procs : ConcKill(p) /\ ConcRest

SpecConc == InitConc /\ [][NextConc]_vars

(***************************************************************************)
(* The subgraph of the companies behind a list of clients, collected from  *)
(* the imported ownership tables.                                          *)
(* src/pipeline.py 88-139                                                  *)
(*                                                                         *)
(* The tables are a function from the number of a company to the list of   *)
(* its ownership_edge rows in the order the SELECT returns them; a row     *)
(* names the number of the owning company, or 0 for an owner that is a     *)
(* person.  The recursion of dfs is a stack of frames.                     *)
(***************************************************************************)
SeedCompanies == 1..4
SeedId(n) == Rep("0", 7) \o <<ToString(n)>>
\* lines 95-97: the local norm_ico
seed_norm_ico(s) == ZFill(SelectSeq(s, IsDigit), 8)
SeedNumberOf(ico) == CHOOSE n \in SeedCompanies \cup {0} :
                         (n \in SeedCompanies /\ SeedId(n) = ico)
                         \/ (n = 0 /\ \A m \in SeedCompanies : SeedId(m) # ico)
SeedRowsOf(g, ico) == IF SeedNumberOf(ico) = 0 THEN <<>> ELSE g[SeedNumberOf(ico)]
\* lines 99-101
has_edges(g, ico) == SeedRowsOf(g, ico) # <<>>
\* lines 103-113
owners_company_icos(g, ico) ==
    LET rows == SelectSeq(SeedRowsOf(g, ico), LAMBDA o : o # 0)
    IN  [i \in 1..Len(rows) |-> seed_norm_ico(SeedId(rows[i]))]

DfsFrame(ico, depth) == [pc |-> "enter", ico |-> ico, depth |-> depth, rest |-> <<>>]
SeedTop == sg_stack[Len(sg_stack)]
SeedPop == SubSeq(sg_stack, 1, Len(sg_stack) - 1)
SeedEntering == sg_stack # <<>> /\ SeedTop.pc = "enter"
SeedDone == sg_in # <<>> /\ sg_stack = <<>>

\* lines 136-137: for r in roots: dfs(r, 0)
SeedNextRoot ==
    /\ sg_stack # <<>> /\ SeedTop.pc = "roots" /\ SeedTop.rest # <<>>
    /\ sg_stack' = <<[SeedTop EXCEPT !.rest = Tail(@)]>>
                       \o <<DfsFrame(seed_norm_ico(Head(SeedTop.rest)), 0)>>
    /\ UNCHANGED <<sg_in, sg_visited, sg_companies, sg_missing>>

\* line 139: the roots are through; the two sets are returned, sorted
SeedReturn ==
    /\ sg_stack # <<>> /\ SeedTop.pc = "roots" /\ SeedTop.rest = <<>>
    /\ sg_stack' = <<>>
    /\ UNCHANGED <<sg_in, sg_visited, sg_companies, sg_missing>>

\* lines 121-122: seen before
DfsVisited ==
    /\ SeedEntering /\ SeedTop.ico \in sg_visited
    /\ sg_stack' = SeedPop
    /\ UNCHANGED <<sg_in, sg_visited, sg_companies, sg_missing>>

\* lines 123-127: at the depth limit the company is collected, not examined
DfsAtLimit ==
    /\ SeedEntering /\ SeedTop.ico \notin sg_visited
    /\ SeedTop.depth >= sg_in.max_depth
    /\ sg_visited' = sg_visited \cup {SeedTop.ico}
    /\ sg_companies' = sg_companies \cup {SeedTop.ico}
    /\ sg_stack' = SeedPop
    /\ UNCHANGED <<sg_in, sg_missing>>

\* lines 129-131: no ownership rows
DfsMissing ==
    /\ SeedEntering /\ SeedTop.ico \notin sg_visited
    /\ SeedTop.depth < sg_in.max_depth
    /\ ~has_edges(sg_in.graph, SeedTop.ico)
    /\ sg_visited' = sg_visited \cup {SeedTop.ico}
    /\ sg_companies' = sg_companies \cup {SeedTop.ico}
    /\ sg_missing' = sg_missing \cup {SeedTop.ico}
    /\ sg_stack' = SeedPop
    /\ UNCHANGED sg_in

\* lines 123-133: the company is collected and its owning companies are listed
DfsExpand ==
    /\ SeedEntering /\ SeedTop.ico \notin sg_visited
    /\ SeedTop.depth < sg_in.max_depth
    /\ has_edges(sg_in.graph, SeedTop.ico)
    /\ sg_visited' = sg_visited \cup {SeedTop.ico}
    /\ sg_companies' = sg_companies \cup {SeedTop.ico}
    /\ sg_stack' = SeedPop \o <<[SeedTop EXCEPT !.pc = "loop",
                                   !.rest = owners_company_icos(sg_in.graph, SeedTop.ico)]>>
    /\ UNCHANGED <<sg_in, sg_missing>>

\* lines 133-134: for child in owners_company_icos(ico): dfs(child, depth + 1)
DfsChild ==
    /\ sg_stack # <<>> /\ SeedTop.pc = "loop" /\ SeedTop.rest # <<>>
    /\ sg_stack' = SeedPop \o <<[SeedTop EXCEPT !.rest = Tail(@)]>>
                       \o <<DfsFrame(seed_norm_ico(Head(SeedTop.rest)), SeedTop.depth + 1)>>
    /\ UNCHANGED <<sg_in, sg_visited, sg_companies, sg_missing>>

\* line 134: the loop over the owners is through
DfsReturn ==
    /\ sg_stack # <<>> /\ SeedTop.pc = "loop" /\ SeedTop.rest = <<>>
    /\ sg_stack' = SeedPop
    /\ UNCHANGED <<sg_in, sg_visited, sg_companies, sg_missing>>

\* ownership tables: chains, a cycle, two ways of different length to one
\* company, owners that are persons, companies without rows
SeedGraphs ==
    [SeedCompanies -> {<<>>, <<0>>, <<2, 3>>, <<3, 2>>, <<3>>, <<4>>, <<1>>, <<0, 4>>}]
SeedRoots == {<<"1">>, <<"2", "1">>, <<"1", "2">>, <<"1", "1">>}
SeedMaxDepths == {0, 1, 2, 3}

InitSeed ==
    /\ sg_in \in [graph : SeedGraphs, roots : SeedRoots, max_depth : SeedMaxDepths]
    /\ sg_stack = <<[pc |-> "roots", ico |-> <<>>, depth |-> 0, rest |-> sg_in.roots]>>
    /\ sg_visited = {} /\ sg_companies = {} /\ sg_missing = {}
    /\ ClientIdle /\ ExtractIdle /\ WalkIdle /\ UboIdle /\ ParseIdle /\ NameIdle
    /\ GraphIdle /\ ConcIdle

SeedRest ==
    UNCHANGED <<clientVars, extractVars, walkVars, uboVars, parseVars, nameVars,
                graphVars, concVars>>

NextSeed ==
    \/ SeedNextRoot /\ SeedRest
    \/ SeedReturn /\ SeedRest
    \/ DfsVisited /\ SeedRest
    \/ DfsAtLimit /\ SeedRest
    \/ DfsMissing /\ SeedRest
    \/ DfsExpand /\ SeedRest
    \/ DfsChild /\ SeedRest
    \/ DfsReturn /\ SeedRest

SpecSeed == InitSeed /\ [][NextSeed]_vars

(***************************************************************************)
(* Claims about the registry client, checked under SpecClient.             *)
(***************************************************************************)
Hist(i) == cl_hist[i]
LastCall == cl_hist[Len(cl_hist)]
Returned(h) == h.outcome \in {"hit", "ok", "errrec"}
RowOf(h) == [ico |-> h.ico, fetched_at |-> h.t_end, payload_json |-> JsonDumps(h.payload)]
\* two consecutive calls for the same normalised id, both without force_refresh
SuccessivePlain(i) ==
    /\ Hist(i).ico = Hist(i + 1).ico
    /\ ~Hist(i).force /\ ~Hist(i + 1).force

\* C5 as stated: two successive get_vr(id) calls with force_refresh=false
\* issue exactly one network request in total; the second is a cache hit
\* returning the payload stored by the first.
C5_Original ==
    \A i \in 1..(Len(cl_hist) - 1) :
        SuccessivePlain(i) =>
            /\ Hist(i).nreq + Hist(i + 1).nreq = 1
            /\ Hist(i + 1).outcome = "hit"
            /\ Hist(i + 1).payload = Hist(i).payload

\* C5 amended: when the first of two successive get_vr(id) calls without
\* force_refresh returns (a registry JSON object or a 400/404 error-record),
\* the second call is a cache hit that issues no request and returns that
\* payload verbatim; the two calls together issue one request plus one per
\* failed attempt the first call retried (none at all when the first call
\* was itself a cache hit).
C5_SecondCallIsCacheHit ==
    \A i \in 1..(Len(cl_hist) - 1) :
        (SuccessivePlain(i) /\ Returned(Hist(i)) /\ ~IsPyNone(Hist(i).payload)) =>
            /\ Hist(i + 1).outcome = "hit"
            /\ Hist(i + 1).nreq = 0
            /\ Hist(i + 1).payload = Hist(i).payload
            /\ Hist(i).nreq + Hist(i + 1).nreq =
                   (IF Hist(i).outcome = "hit" THEN 0 ELSE Hist(i).nfail + 1)

C5_Witness ==
    /\ Len(cl_hist) >= 2
    /\ SuccessivePlain(1)
    /\ Hist(1).raw # Hist(2).raw
    /\ Hist(1).outcome = "errrec" /\ Hist(1).nreq = 1
    /\ Hist(2).outcome = "hit" /\ Hist(2).payload = Hist(1).payload

\* C6: a call with force_refresh=true issues at least one outbound request
\* whether or not a row is cached, and when it returns the row of its id
\* holds the payload this call returned and this call's fetch time, newer
\* than the row it replaced.
C6_ForceRefreshFetchesAndUpdates ==
    /\ \A i \in 1..Len(cl_hist) : Hist(i).force => Hist(i).nreq >= 1
    /\ (cl_hist # <<>> /\ LastCall.force /\ Returned(LastCall)) =>
            /\ LastCall.outcome # "hit"
            /\ Rows(ares_vr_cache, LastCall.ico) = {RowOf(LastCall)}
            /\ \A r \in LastCall.row_before : r.fetched_at < LastCall.t_end

C6_Witness ==
    /\ Len(cl_hist) >= 2
    /\ LastCall.force /\ LastCall.outcome = "ok"
    /\ \E r \in LastCall.row_before : JsonLoads(r.payload_json) # LastCall.payload
    /\ Rows(ares_vr_cache, LastCall.ico) = {RowOf(LastCall)}

C8_RetriesBoundedOnly200Succeeds ==
    /\ cl_call.nreq <= MaxRetries + 1
    /\ cl_pc = "request" =>
            /\ cl_call.nfail = cl_call.nreq /\ cl_call.attempt = cl_call.nreq
            /\ cl_call.nreq <= MaxRetries
            /\ cl_call.nreq > 0 => cl_call.last_code \in {"429", "503", "EXC"}
    /\ \A i \in 1..Len(cl_hist) :
        /\ Hist(i).nreq <= MaxRetries + 1
        /\ Hist(i).last_code \in {"429", "503", "EXC"} <=> Hist(i).outcome = "raised"
        /\ Hist(i).outcome = "raised" =>
            /\ Hist(i).nfail = MaxRetries + 1 /\ Hist(i).nreq = MaxRetries + 1
            /\ IsPyNone(Hist(i).payload)
            /\ i = Len(cl_hist) => Rows(ares_vr_cache, Hist(i).ico) = Hist(i).row_before
        /\ Hist(i).outcome = "ok" <=> Hist(i).last_code = "200"
        /\ (Hist(i).outcome = "ok" /\ i = Len(cl_hist)) =>
                Rows(ares_vr_cache, Hist(i).ico) = {RowOf(Hist(i))}

C8_Witness ==
    /\ Len(cl_hist) >= 2
    /\ Hist(1).outcome = "ok" /\ Hist(1).nfail = MaxRetries /\ Hist(1).nreq = MaxRetries + 1
    /\ LastCall.outcome = "raised" /\ LastCall.nreq = MaxRetries + 1
    /\ LastCall.last_code = "EXC" /\ LastCall.row_before # {}

\* C9 as stated: every cache key is exactly eight digits, for every input
\* ID string.
C9_Original == \A r \in ares_vr_cache : IsEightDigits(r.ico)



\* the times at which the client sent its HTTP requests, oldest first
AllSent == Flatten([i \in 1..Len(cl_hist) |-> cl_hist[i].sent]) \o cl_call.sent

\* C18 as stated: any two consecutive HTTP requests of one client, across
\* get_vr calls and across the retries inside one call, are at least
\* min_delay_between_requests_s apart.
C18_Original ==
    \A k \in 1..(Len(AllSent) - 1) : AllSent[k + 1] - AllSent[k] >= MinDelay

(***************************************************************************)
(* Claims about concurrent calls on one cache, checked under SpecConc.     *)
(***************************************************************************)
\* the row a committed put stands for
CacheRowOf(w) == [ico |-> w.ico, fetched_at |-> w.ts, payload_json |-> JsonDumps(w.payload)]
\* a step that changes the table is the committed put of one call, and it
\* changes the row of that call's id only
OnlyCommittedPut ==
    ares_vr_cache' # ares_vr_cache =>
        \E p \in Procs :
            /\ Proc(p).pc = "exec" /\ cc_procs'[p].pc = "idle"
            /\ \A q \in Procs \ {p} : cc_procs'[q] = cc_procs[q]
            /\ \A r \in ares_vr_cache : r.ico # Proc(p).ico => r \in ares_vr_cache'
            /\ \A r \in ares_vr_cache' : r.ico # Proc(p).ico => r \in ares_vr_cache
\* a call that fails, raises or is stopped leaves the table as it was
LeavesNoWrite(p) ==
    /\ Proc(p).pc \in {"request", "exec"} /\ cc_procs'[p] # cc_procs[p]
    /\ \/ cc_procs'[p].pc \in {"dead", "request"}
       \/ cc_procs'[p].pc = "idle" /\ cc_writes' = cc_writes

\* C27: under every interleaving of concurrent get_vr calls on one cache
\* the table holds at most one row per id; every row is the complete
\* payload of one single call with the timestamp that call took, namely of
\* the put committed last for the id, never a mix of two calls; and a call
\* that fails or is stopped before its write leaves the rows as they were.
C27_RowsAreWholeWrites ==
    /\ [](\A r1, r2 \in ares_vr_cache : r1.ico = r2.ico => r1 = r2)
    /\ [](\A ico \in ConcIcos :
            Rows(ares_vr_cache, ico) = {CacheRowOf(w) : w \in {cc_writes[ico][k] : k \in 1..Len(cc_writes[ico])}})
    /\ [][OnlyCommittedPut]_vars
    /\ [][\A p \in Procs : LeavesNoWrite(p) => ares_vr_cache' = ares_vr_cache]_vars

\* two calls ran on the same id at once: the one that read the clock first
\* committed last, over the row of the other, and its payload and timestamp
\* are the row; a third call, on another id, was stopped between reading
\* the clock and its write, and there is no row of that id
C27_Witness ==
    /\ \E w \in {cc_writes[Ico("A")][k] : k \in 1..Len(cc_writes[Ico("A")])} :
           /\ w.late
           /\ CacheRowOf(w) \in ares_vr_cache
    /\ Rows(ares_vr_cache, Ico("B")) = {}
    /\ \E p \in Procs : Proc(p).pc = "dead" /\ Proc(p).ts > 0 /\ Proc(p).ico = Ico("B")

(***************************************************************************)
(* Claims about the collected subgraph, checked under SpecSeed.            *)
(***************************************************************************)
\* the companies that own a company of `set' directly
SeedOwnersOf(g, set) ==
    UNION {{owners_company_icos(g, ico)[i] : i \in 1..Len(owners_company_icos(g, ico))} : ico \in set}
RECURSIVE SeedWithin(_, _, _)
\* the companies reachable from `set' through at most d ownership edges
SeedWithin(g, set, d) ==
    IF d = 0 THEN set ELSE SeedWithin(g, set \cup SeedOwnersOf(g, set), d - 1)
SeedRootSet == {seed_norm_ico(sg_in.roots[i]) : i \in 1..Len(sg_in.roots)}

\* C30: the collection is through on every table, and then the companies
\* returned are all those reachable from some root through at most
\* max_depth ownership edges between companies, whatever the order of the
\* owners and of the roots; the missing ones are the returned companies
\* within fewer than max_depth edges that have no ownership rows.
C30_Original ==
    SeedDone =>
        /\ sg_companies = SeedWithin(sg_in.graph, SeedRootSet, sg_in.max_depth)
        /\ sg_missing = {ico \in sg_companies :
                             /\ sg_in.max_depth > 0
                             /\ ico \in SeedWithin(sg_in.graph, SeedRootSet, sg_in.max_depth - 1)
                             /\ ~has_edges(sg_in.graph, ico)}

(***************************************************************************)
(* Claims about the owner extractor, checked under SpecExtract.            *)
(***************************************************************************)
Out == The(ex_out)
TheZaznam == ex_payload.zaznamy[1]
HasDate(item) == item.datumVymazu # <<>>
Undeleted(items) == SelectSeq(items, LAMBDA x : x.datumVymazu = <<>>)
\* the payload without its deleted groups, sections, members and share
\* entries (children of a deleted group or section go with it)
PurgedZaznam(z) ==
    [z EXCEPT
       !.spolecnici =
           LET bs == Undeleted(z.spolecnici)
           IN  [b \in 1..Len(bs) |->
                   [bs[b] EXCEPT !.spolecnik =
                       LET ms == Undeleted(bs[b].spolecnik)
                       IN  [m \in 1..Len(ms) |->
                               [ms[m] EXCEPT !.podil = Undeleted(ms[m].podil)]]]],
       !.akcionari =
           LET os == Undeleted(z.akcionari)
           IN  [o \in 1..Len(os) |->
                   [os[o] EXCEPT !.clenoveOrganu = Undeleted(os[o].clenoveOrganu)]]]
Purged(p) == [p EXCEPT !.zaznamy = <<PurgedZaznam(p.zaznamy[1])>>]
RECURSIVE SeqSumNat(_)
SeqSumNat(ns) == IF ns = <<>> THEN 0 ELSE Head(ns) + SeqSumNat(Tail(ns))
\* how many members are not deleted and sit in a group or section that is
\* not deleted
ActiveMemberCount(z) ==
    LET bs == Undeleted(z.spolecnici)
        os == Undeleted(z.akcionari)
    IN  SeqSumNat([b \in 1..Len(bs) |-> Len(Undeleted(bs[b].spolecnik))])
        + SeqSumNat([o \in 1..Len(os) |-> Len(Undeleted(os[o].clenoveOrganu))])
\* the percentage written in one share entry of the inputs
EntryPct(podil) == Rat(The(The(podil.velikostPodilu).hodnota)[1].n, 1)
\* the shares the active members hold by their undeleted share entries
ActiveShareSums(z) ==
    LET bs == Undeleted(z.spolecnici)
    IN  {RClamp(SeqSum([k \in 1..Len(Undeleted(m.podil)) |-> EntryPct(Undeleted(m.podil)[k])]),
                RHundred) :
            m \in {x \in UNION {Range(Undeleted(bs[b].spolecnik)) : b \in 1..Len(bs)} :
                       Undeleted(x.podil) # <<>>}}

\* C10: extract_current_owners reports only active items: the owners are
\* those of the payload with every deleted group, section, member and share
\* entry (and every child of a deleted group or section) removed; no more
\* owners are reported than there are active members; a reported share is a
\* sum of undeleted share entries; and when no active member is left the
\* owner list is empty.
C10_OnlyActiveItemsAreReported ==
    IsSome(ex_out) =>
        /\ Out.owners = extract_current_owners(Purged(ex_payload)).owners
        /\ Len(Out.owners) <= ActiveMemberCount(TheZaznam)
        /\ \A i \in 1..Len(Out.owners) :
               (Out.owners[i].label = "Spolecnici" /\ IsSome(Out.owners[i].share_pct))
                   => The(Out.owners[i].share_pct) \in ActiveShareSums(TheZaznam)
        /\ (ActiveMemberCount(TheZaznam) = 0 => Out.owners = <<>>)
\* an active group holding a deleted member and an active member with one
\* deleted and one active share entry, next to a deleted shareholder section
\* with an active child: exactly the active member is reported, at 50 %
C10_Witness ==
    /\ IsSome(ex_out)
    /\ Len(TheZaznam.spolecnici) = 1 /\ Len(TheZaznam.akcionari) = 1
    /\ ~HasDate(TheZaznam.spolecnici[1])
    /\ Len(TheZaznam.spolecnici[1].spolecnik) = 2
    /\ HasDate(TheZaznam.spolecnici[1].spolecnik[1])
    /\ ~HasDate(TheZaznam.spolecnici[1].spolecnik[2])
    /\ TheZaznam.spolecnici[1].spolecnik[2].podil = <<PodilOld, PodilHalf>>
    /\ HasDate(TheZaznam.akcionari[1])
    /\ ~HasDate(TheZaznam.akcionari[1].clenoveOrganu[1])
    /\ Len(Out.owners) = 1
    /\ Out.owners[1].share_pct = Some(Rat(50, 1))


\* the key under which an owner is one logical owner: the registry ID of a
\* company, the display name of a person
IdentityKey(o) == IF o.kind = "COMPANY" /\ IsSome(o.ico) THEN IdToks(The(o.ico)) ELSE o.name
SameOwner(a, b) == a.label = b.label /\ a.kind = b.kind /\ IdentityKey(a) = IdentityKey(b)
\* the owner an active member entry stands for
EntryOwner(e) == MemberOwner(The(Candidate(e)))
ActiveEntries == MemberEntries(TheZaznam)
\* entry e is registered no earlier than any active entry of the same owner
IsNewest(e) ==
    \A k \in 1..Len(ActiveEntries) :
        SameOwner(EntryOwner(ActiveEntries[k]), EntryOwner(e))
            => DateOrMin(ActiveEntries[k].sp.datumZapisu) <= DateOrMin(e.sp.datumZapisu)

\* C11 as stated: the owner list never holds two records with the same
\* (label, kind, identity-key), for owners of the members block and of the
\* shareholders block alike; among active duplicates of a member the record
\* with the newest datumZapisu is the one reported, with its own share only.
C11_Original ==
    IsSome(ex_out) =>
        /\ \A i, j \in 1..Len(Out.owners) :
               i # j => ~SameOwner(Out.owners[i], Out.owners[j])
        /\ \A k \in 1..Len(ActiveEntries) :
               \E i \in 1..Len(Out.owners) :
                   /\ SameOwner(Out.owners[i], EntryOwner(ActiveEntries[k]))
                   /\ \E n \in 1..Len(ActiveEntries) :
                          /\ IsNewest(ActiveEntries[n])
                          /\ Out.owners[i] = EntryOwner(ActiveEntries[n])


\* the header of a shareholder section says "jediny akcionar"
IsSoleShareholderHeader(header) == header = "Jediny akcionar"
\* the owners that come from a shareholder section: the label of a
\* section is its header, or "Akcionari" when it has none
ShareholderRecords ==
    {i \in 1..Len(Out.owners) : Out.owners[i].label \in {"Akcionari", "Jediny akcionar"}}

\* C12 as stated: a member of a shareholder section gets a share of 100 %
\* exactly when the header of its section matches "jediny akcionar" and no
\* explicit share is given for it (the registry gives none for a section
\* member); a member of any other section is not given 100 % by default.
C12_Original ==
    IsSome(ex_out) =>
        \A i \in ShareholderRecords :
            Out.owners[i].share_pct = Some(RHundred)
                <=> IsSoleShareholderHeader(Out.owners[i].label)


(***************************************************************************)
(* Claims about the share-text parser, checked under SpecParse.            *)
(***************************************************************************)
ParsedFrac == The(pt_out).frac
\* the text the layers look at: stripped, the 'splaceno' fields removed
Cleaned == RemoveAll(SPLACENO_FIELD_RE, Strip(pt_text), 1)
\* what each of the four layers finds in it, as fractions of one
LayerOne ==
    FracTerms(FindAll(OBCHODNI_PODIL_FRAC_RE, Cleaned, 1))
        \o PctTerms(FindAll(OBCHODNI_PODIL_PCT_RE, Cleaned, 1))
LayerTwo == PctTerms(FindAll(HLASOVACI_PRAVA_PCT_RE, Cleaned, 1))
LayerThree ==
    FracTerms(FindAll(FRAC_SLASH_RE, Cleaned, 1)) \o FracTerms(FindAll(FRAC_SEMI_RE, Cleaned, 1))
LayerFour == PctTerms(FindAll(PCT_RE, Cleaned, 1)) \o PctTerms(FindAll(PROCENTA_RE, Cleaned, 1))
Layers == <<LayerOne, LayerTwo, LayerThree, LayerFour>>
Matching == {k \in 1..4 : Layers[k] # <<>>}
FirstLayer == CHOOSE k \in Matching : \A j \in Matching : k <= j

\* C13: parse_pct_from_text returns the sum of the matches of the first of
\* the four layers (obchodni podil, hlasovaci prava, generic fractions,
\* generic percentages) that produces a value, of that layer only, clamped
\* to [0,1], the 'splaceno' fields removed beforehand; it returns null
\* exactly when no layer produces a value (a fraction with denominator 0
\* produces none).
C13_FirstMatchingLayerOnly ==
    IsSome(pt_out) =>
        /\ IsNone(ParsedFrac) <=> Matching = {}
        /\ Matching # {} =>
               /\ ParsedFrac = Some(RClamp(SeqSum(Layers[FirstLayer]), ROne))
               /\ RLe(RZero, The(ParsedFrac)) /\ RLe(The(ParsedFrac), ROne)

\* a text with a 'splaceno' field in which generic fractions and generic
\* percentages both match and have different sums: the fractions are returned
C13_Witness ==
    /\ IsSome(pt_out)
    /\ Cleaned # Strip(pt_text)
    /\ LayerOne = <<>> /\ LayerTwo = <<>> /\ LayerThree # <<>> /\ LayerFour # <<>>
    /\ RClamp(SeqSum(LayerThree), ROne) # RClamp(SeqSum(LayerFour), ROne)
    /\ ParsedFrac = Some(RClamp(SeqSum(LayerThree), ROne))

TextVelikost ==
    <<Tok("velikost"), Tok(":"), Num(2, 1), Tok(";"), Num(25, 2), Ws, Tok("PROCENTA")>>
TextFiftyPct == <<Num(50, 2), Ws, Tok("%")>>
TextOneThird == <<Num(1, 1), Tok("/"), Num(3, 1)>>
TextPodilSplaceno ==
    <<Tok("obchodni_podil"), Tok(":"), Ws, Num(1, 1), Tok("/"), Num(2, 1), Tok(";"), Ws,
      Tok("splaceno"), Tok(":"), Num(100, 3), Ws, Tok("PROCENTA")>>

\* the examples of C14 other than "velikost:2;25 PROCENTA"
OtherExamples ==
    /\ pt_text = TextFiftyPct => ParsedFrac = Some(Rat(1, 2))
    /\ pt_text = TextOneThird => ParsedFrac = Some(Rat(1, 3))
    /\ pt_text = TextPodilSplaceno => ParsedFrac = Some(Rat(1, 2))
    /\ pt_text = <<>> => ParsedFrac = None

\* C14 as stated: "velikost:2;25 PROCENTA" parses to 0.0225, the semicolon
\* read as a decimal mark and not as the fraction 2/25; "50 %" gives 0.5,
\* "1/3" one third, "obchodni_podil: 1/2; splaceno:100 PROCENTA" 0.5 and the
\* empty string null.
C14_Original ==
    IsSome(pt_out) =>
        /\ pt_text = TextVelikost => ParsedFrac = Some(Rat(225, 10000))
        /\ OtherExamples


(***************************************************************************)
(* Claims about the resolver and the aggregation, checked under SpecWalk.  *)
(***************************************************************************)
OwnerLines == {i \in 1..Len(wk_lines) : wk_lines[i].kind \in {"company", "person"}}
\* lines written on entering walk(): the header, or the line that replaces it
EntryLines == {i \in 1..Len(wk_lines) : wk_lines[i].kind \in {"header", "error", "truncated"}}
RECURSIVE PathKnown(_)
\* every local share from the root down to owner line i is known
PathKnown(i) ==
    /\ IsSome(wk_lines[i].s)
    /\ wk_lines[wk_lines[i].hdr].via = 0 \/ PathKnown(wk_lines[wk_lines[i].hdr].via)
RECURSIVE PathProduct(_)
\* the product of the local shares from the root down to owner line i
PathProduct(i) ==
    RMul(The(wk_lines[i].s),
         IF wk_lines[wk_lines[i].hdr].via = 0 THEN ROne
         ELSE PathProduct(wk_lines[wk_lines[i].hdr].via))

\* C1: every owner line whose local share s is known carries
\* effective_pct = 100 * m * s, m being the parent multiplier of the walk step
\* that wrote it; m is 1 at the root, and for a child company it is the
\* parent's m times the local share of the company-owner line that led to
\* it; so where all shares on the path are known, effective_pct is 100 times
\* their product.
C1_EffectiveIsHundredTimesMTimesS ==
    /\ \A i \in OwnerLines :
           /\ wk_lines[i].m = wk_lines[wk_lines[i].hdr].m
           /\ IsSome(wk_lines[i].s) =>
                  wk_lines[i].effective_pct =
                      Some(RMul(RHundred, RMul(wk_lines[i].m, The(wk_lines[i].s))))
           /\ PathKnown(i) =>
                  wk_lines[i].effective_pct = Some(RMul(RHundred, PathProduct(i)))
    /\ \A i \in EntryLines :
           IF wk_lines[i].via = 0 THEN wk_lines[i].m = ROne /\ wk_lines[i].depth = 0
           ELSE /\ wk_lines[wk_lines[i].via].kind = "company"
                /\ IsSome(wk_lines[wk_lines[i].via].s) =>
                       wk_lines[i].m = RMul(wk_lines[wk_lines[i].via].m,
                                            The(wk_lines[wk_lines[i].via].s))
\* a person three companies down: 50 % of a company held at 50 % by a
\* company held at 50 % by the root, on a line carrying 12.5
C1_Witness ==
    \E i \in OwnerLines :
        /\ wk_lines[i].kind = "person" /\ wk_lines[i].depth = 8
        /\ wk_lines[i].m = Rat(1, 4) /\ wk_lines[i].s = Some(Rat(1, 2))
        /\ wk_lines[i].effective_pct = Some(Rat(25, 2))

Persons == The(wk_persons)
PersonName(key) == _person_name(FosOf(key))
\* the owners of a company: the registry's, then the ones added by hand
OwnersIn(world, key) ==
    world[key].owners
        \o [k \in 1..Len(SelectSeq(world.manual, LAMBDA e : e.target = Ico(key))) |->
               Co(KeyOf(ZFill(SelectSeq(world.manual, LAMBDA e : e.target = Ico(key))[k].owner_ico, 8)),
                  [typ |-> "PROCENTA", text |-> <<>>,
                   val |-> Some(SelectSeq(world.manual, LAMBDA e : e.target = Ico(key))[k].share)])]
RECURSIVE AllKnownFrom(_, _, _)
\* every share registered at or below company `key' has a size
AllKnownFrom(world, key, level) ==
    level > 3 \/ ~world[key].known \/
    \A k \in 1..Len(OwnersIn(world, key)) :
        LET e == OwnersIn(world, key)[k]
        IN  IsSome(e.share.val) /\ (e.kind = "C" => AllKnownFrom(world, e.who, level + 1))
RECURSIVE PathShares(_, _, _, _, _)
\* the effective shares of the paths from company `key' (reached with the
\* product `mult') down to person p, one entry per path
PathShares(world, key, p, mult, level) ==
    IF level > 3 \/ ~world[key].known THEN <<>>
    ELSE Flatten([k \in 1..Len(OwnersIn(world, key)) |->
             LET e == OwnersIn(world, key)[k]
             IN  IF e.kind = "N" THEN
                     (IF e.who = p THEN <<RMul(mult, The(e.share.val))>> ELSE <<>>)
                 ELSE PathShares(world, e.who, p, RMul(mult, The(e.share.val)), level + 1)])
ResolvedWithinMaxDepth == \A i \in 1..Len(wk_lines) : wk_lines[i].kind # "truncated"
RecordsOf(name) == {i \in 1..Len(Persons) : Persons[i].name = name}
\* what the person lines of the trace carry for `name'
LineShares(name) ==
    LET ls == SelectSeq(wk_lines, LAMBDA l : l.kind = "person" /\ l.text # <<>>
                                             /\ OwnerNameOf(l.text) = name
                                             /\ IsSome(l.effective_pct))
    IN  [k \in 1..Len(ls) |-> RDiv(The(ls[k].effective_pct), RHundred)]

\* C2: after resolve_tree_online and compute_effective_persons, every
\* natural person reachable from the root has exactly one record; its
\* ownership and its voting are the sum of the effective shares of all
\* root-to-person paths, clamped to [0,1], and it records one path per
\* root-to-person path (registry resolved within max_depth, every share on
\* the way having a size).  In every case the record holds the clamped sum
\* of what the person's lines of the trace carry.
C2_PersonsSumOverPaths ==
    IsSome(wk_persons) =>
        \A p \in {"P", "Q"} :
            LET paths == PathShares(wk_world, "A", p, ROne, 0)
                recs == RecordsOf(PersonName(p))
            IN  /\ Cardinality(recs) <= 1
                /\ \A i \in recs :
                       /\ Persons[i].ownership = RClamp(SeqSum(LineShares(PersonName(p))), ROne)
                       /\ Persons[i].voting = Persons[i].ownership
                /\ (ResolvedWithinMaxDepth /\ AllKnownFrom(wk_world, "A", 0)) =>
                       IF paths = <<>> THEN recs = {}
                       ELSE /\ Cardinality(recs) = 1
                            /\ \A i \in recs :
                                   /\ Persons[i].ownership = RClamp(SeqSum(paths), ROne)
                                   /\ Persons[i].voting = RClamp(SeqSum(paths), ROne)
                                   /\ Len(Persons[i].paths) = Len(paths)
\* the root held 30 % by B and 30 % by C, both wholly owned by one person:
\* the person's record holds 0.60 and two paths
C2_Witness ==
    /\ IsSome(wk_persons)
    /\ wk_world.manual = <<>>
    /\ wk_world.A.owners = <<Co("B", Pct(30)), Co("C", Pct(30))>>
    /\ wk_world.B.known /\ wk_world.B.owners = <<Na("P", Pct(100))>>
    /\ wk_world.C.owners = <<Na("P", Pct(100))>>
    /\ \E i \in RecordsOf(PersonName("P")) :
           /\ Persons[i].ownership = Rat(3, 5) /\ Persons[i].voting = Rat(3, 5)
           /\ Len(Persons[i].paths) = 2



\* the walk has returned to resolve_tree_online
WalkDone == wk_stack = <<>>
LinesOfKind(kinds) == {i \in 1..Len(wk_lines) : wk_lines[i].kind \in kinds}

\* C15 as stated: with max_depth = 0 the trace is a single line, the header
\* of the root: no label line, no owner line, no child is fetched.
C15_Original ==
    (WalkDone /\ wk_world.max_depth = 0) =>
        /\ Len(wk_lines) = 1
        /\ wk_lines[1].kind = "header" /\ wk_lines[1].depth = 0
        /\ LinesOfKind({"label", "company", "person", "truncated"}) = {}


\* the company a header line is about: its text ends with "(ICO <id>)"
HeaderKey(h) ==
    CHOOSE key \in {"A", "B", "C"} :
        <<wk_lines[h].text[Len(wk_lines[h].text) - 1]>> = IdToks(Ico(key))
\* the owner lines written under header h, by position
OwnerIdx(h) == {i \in LinesOfKind({"company", "person"}) : wk_lines[i].hdr = h}
NthOwner(h, k) == CHOOSE i \in OwnerIdx(h) : Cardinality({j \in OwnerIdx(h) : j <= i}) = k
\* what the registry holds for the company, and the manual entries for it
RegistryOwnersOf(key) == ExtractAny(RegistryAnswer(wk_world, Ico(key)).payload).owners
ManualEntriesOf(key) == SelectSeq(wk_world.manual, LAMBDA e : e.target = Ico(key))
\* an owner line is the line of registry owner o
IsLineOf(ln, o) ==
    /\ ln.label = o.label
    /\ (ln.kind = "company") = IsCompanyOwner(o)
    /\ ln.s = LocalShare(o)
    /\ OwnerNameOf(ln.text) = o.name
\* line i is the line of manual entry e: a company owner under the manual
\* label with local share e.share, that is fraction * 100 percent, and a
\* walk of the owner was called from it
IsManualLineOf(i, e) ==
    /\ wk_lines[i].label = "Manualne doplneno"
    /\ wk_lines[i].kind = "company"
    /\ wk_lines[i].s = Some(e.share)
    /\ wk_lines[i].effective_pct = Some(RMul(RMul(wk_lines[i].m, e.share), RHundred))
    /\ \E j \in 1..(Len(wk_lines[i].text) - 2) :
           SubSeq(wk_lines[i].text, j, j + 2) = Fmt2(RMul(e.share, RHundred))
    /\ <<wk_lines[i].text[Len(wk_lines[i].text) - 1]>> = IdToks(ZFill(e.owner_ico, 8))
    /\ \E j \in LinesOfKind({"header", "error", "truncated"}) : wk_lines[j].via = i
OwnersAppended(h, reg, man) ==
    /\ Cardinality(OwnerIdx(h)) = Len(reg) + Len(man)
    /\ \A k \in 1..Len(reg) : IsLineOf(wk_lines[NthOwner(h, k)], reg[k])
    /\ \A k \in 1..Len(man) : IsManualLineOf(NthOwner(h, Len(reg) + k), man[k])

\* C16: under every company header the owner lines are those of all the
\* registry owners, unchanged and in their order, followed by one line per
\* manual entry for that company: a company owner under the manual label
\* with share fraction * 100, recursed into.
C16_ManualOwnersAppended ==
    WalkDone =>
        \A h \in LinesOfKind({"header"}) :
            OwnersAppended(h, RegistryOwnersOf(HeaderKey(h)), ManualEntriesOf(HeaderKey(h)))

\* the root has registry owners and a manual owner, and the manual owner's
\* own record was walked
C16_Witness ==
    /\ WalkDone /\ IsNone(wk_persons)
    /\ RegistryOwnersOf("A") # <<>> /\ ManualEntriesOf("A") # <<>>
    /\ \E i \in OwnerIdx(1) :
           /\ IsManualLineOf(i, ManualEntriesOf("A")[1])
           /\ \E j \in LinesOfKind({"header"}) : wk_lines[j].via = i /\ HeaderKey(j) = "C"
           /\ \E k \in OwnerIdx(1) : k < i /\ wk_lines[k].label # "Manualne doplneno"


\* what the call that has just returned returned
ThisRun == [lines |-> wk_lines, warnings |-> wk_warnings]
\* the calls after the first: they find every ID they visit in the cache
WarmRuns == {k \in 1..Len(wk_runs) : k >= 2}

\* C17: two calls with the same root, max_depth and manual_overrides on a
\* cache that holds every ID they visit return the same trace and the same
\* warnings, in walk order, whatever the registry holds by then.  The first
\* call fills the cache; every later call returns what the second returned.
C17_WarmRunsAreIdentical ==
    /\ \A j, k \in WarmRuns : wk_runs[j] = wk_runs[k]
    /\ (WalkDone /\ Len(wk_runs) >= 2) => ThisRun = wk_runs[2]

\* the third call has returned; the trace has a company owner and a line of
\* the person Dvorak, whom the registry no longer holds
C17_Witness ==
    /\ WalkDone /\ Len(wk_runs) = MaxReruns
    /\ Len(wk_lines) > 3
    /\ LinesOfKind({"company"}) # {}
    /\ \E i \in LinesOfKind({"person"}) :
           \E j \in 1..Len(wk_lines[i].text) : wk_lines[i].text[j].k = "Dvorak"


\* a walk step is entered with a depth beyond max_depth
EnteredTooDeep == wk_stack # <<>> /\ Top.f = "call" /\ Top.depth > wk_world.max_depth
\* such a step writes one truncation line without a share, asks the client
\* for nothing and returns
TruncatesOnly ==
    /\ Len(wk_lines') = Len(wk_lines) + 1
    /\ SubSeq(wk_lines', 1, Len(wk_lines)) = wk_lines
    /\ wk_lines'[Len(wk_lines')].kind = "truncated"
    /\ wk_lines'[Len(wk_lines')].depth = Top.depth
    /\ wk_lines'[Len(wk_lines')].effective_pct = None
    /\ UNCHANGED <<clientVars, wk_warnings>>
    /\ Len(wk_stack') < Len(wk_stack)
    /\ \A k \in 1..Len(wk_stack') : wk_stack'[k].f = "loop"
\* the walks called from company-owner line i: what they wrote first
ExpansionsOf(i) == {j \in LinesOfKind({"header", "error", "truncated"}) : wk_lines[j].via = i}
\* no cycle detection: every company owner is walked once per line that
\* names it, whether or not the company was walked before; only the
\* depth guard cuts a walk off
ExpandedPerPath ==
    \A i \in LinesOfKind({"company"}) :
        /\ Cardinality(ExpansionsOf(i)) = 1
        /\ \A j \in ExpansionsOf(i) :
               /\ wk_lines[j].depth = wk_lines[i].depth + 1
               /\ (wk_lines[j].kind = "truncated") <=> (wk_lines[j].depth > wk_world.max_depth)
HeadersOf(key) == {h \in LinesOfKind({"header"}) : HeaderKey(h) = key}

\* C19: for every max_depth and every registry content, cycles included,
\* resolve_tree_online terminates; no company header lies deeper than
\* max_depth; a walk step entered deeper than max_depth writes exactly one
\* truncation line with effective_pct null, fetches nothing and returns;
\* and a company reachable along k paths is expanded k times.
C19_TerminatesByDepthGuardOnly ==
    /\ <>WalkDone
    /\ [](\A h \in LinesOfKind({"header"}) : wk_lines[h].depth <= wk_world.max_depth)
    /\ [][EnteredTooDeep => TruncatesOnly]_vars
    /\ [](WalkDone => ExpandedPerPath)

\* a registry with a cycle through the root: the root is expanded at
\* depths 0, 3 and 6 and cut off at depth 9
C19_Witness ==
    /\ WalkDone
    /\ wk_world.max_depth = MaxDepth
    /\ Cardinality(HeadersOf("A")) >= 3
    /\ \E j \in LinesOfKind({"truncated"}) : wk_lines[j].depth = MaxDepth + 3


\* the walk step on top is within max_depth and what get_vr gives it for
\* its company is an error-record (a 400 or 404 answer, fresh or cached)
EntersErrorRecord ==
    /\ wk_stack # <<>> /\ Top.f = "call"
    /\ Top.depth <= wk_world.max_depth
    /\ WalkGetVr(ClientState, wk_world, Top.ico).payload.t = "err"
\* such a step writes one warning line at its depth without a share,
\* appends one structured warning with an empty name and the line's text,
\* and returns: no walk is called and the loops of its callers are as they were
WarnsOnly ==
    /\ Len(wk_lines') = Len(wk_lines) + 1
    /\ SubSeq(wk_lines', 1, Len(wk_lines)) = wk_lines
    /\ wk_lines'[Len(wk_lines')].kind = "error"
    /\ wk_lines'[Len(wk_lines')].label = ""
    /\ wk_lines'[Len(wk_lines')].depth = Top.depth
    /\ wk_lines'[Len(wk_lines')].effective_pct = None
    /\ wk_warnings' = Append(wk_warnings,
           [kind |-> "error", ico |-> Top.ico, name |-> <<>>,
            text |-> wk_lines'[Len(wk_lines')].text])
    /\ Len(wk_stack') < Len(wk_stack)
    /\ \A k \in 1..Len(wk_stack') : wk_stack'[k] = wk_stack[k] /\ wk_stack'[k].f = "loop"
\* the warnings of kind `kind', by position
WarningsOfKind(kind) == {w \in 1..Len(wk_warnings) : wk_warnings[w].kind = kind}
\* nothing was written under a warning line, and the company whose owner it
\* stands for has the lines of all its owners, those after the warning included
NothingBelow(j) ==
    /\ \A i \in 1..Len(wk_lines) : wk_lines[i].hdr # j
    /\ wk_lines[j].via # 0 =>
           OwnersAppended(wk_lines[wk_lines[j].via].hdr,
                          RegistryOwnersOf(HeaderKey(wk_lines[wk_lines[j].via].hdr)),
                          ManualEntriesOf(HeaderKey(wk_lines[wk_lines[j].via].hdr)))

\* C21: when the payload of a company is an error-record the walker writes
\* exactly one warning line at the current depth with effective_pct null,
\* appends exactly one warning {kind "error", ico, name "", text} and
\* returns without header, labels or owners and without descending; the
\* walk goes on with the next sibling.
C21_ErrorRecordWarnsAndReturns ==
    /\ [][EntersErrorRecord => WarnsOnly]_vars
    /\ [](Cardinality(WarningsOfKind("error")) = Cardinality(LinesOfKind({"error"})))
    /\ [](WalkDone => \A j \in LinesOfKind({"error"}) : NothingBelow(j))

\* a company owner of the root is not in the registry: its warning line is
\* followed by the line of the root's next owner
C21_Witness ==
    /\ WalkDone
    /\ \E j \in LinesOfKind({"error"}) :
           /\ wk_lines[j].via # 0
           /\ wk_lines[j].depth = 3
           /\ \E w \in WarningsOfKind("error") : wk_warnings[w].text = wk_lines[j].text
           /\ \E k \in LinesOfKind({"person"}) : k > j /\ wk_lines[k].hdr = wk_lines[wk_lines[j].via].hdr


\* the headers of the companies that have no owner, neither in the registry
\* nor among the manual entries
Ownerless ==
    {h \in LinesOfKind({"header"}) :
        RegistryOwnersOf(HeaderKey(h)) = <<>> /\ ManualEntriesOf(HeaderKey(h)) = <<>>}
\* warning w is the unresolved warning of the company of header h
IsUnresolvedOf(w, h) ==
    /\ wk_warnings[w].kind = "unresolved"
    /\ wk_warnings[w].ico = Ico(HeaderKey(h))
    /\ wk_warnings[w].name = CompanyNameOf(HeaderKey(h))
    /\ SubSeq(wk_warnings[w].text, Len(wk_warnings[w].text) - Len(wk_lines[h].text) + 1,
              Len(wk_warnings[w].text)) = wk_lines[h].text

\* C23: a visited company gets an "unresolved" warning {kind, ico, name,
\* text} exactly when its owner list is empty after the registry owners and
\* the manual owners are merged: one warning per visit of such a company and
\* none for any other; under such a company's header no other line is
\* written; a company with a manual owner gets no unresolved warning.
C23_UnresolvedIffNoOwners ==
    /\ Cardinality(WarningsOfKind("unresolved")) = Cardinality(Ownerless)
    /\ \A w \in WarningsOfKind("unresolved") : \E h \in Ownerless : IsUnresolvedOf(w, h)
    /\ \A h \in Ownerless : \A i \in 1..Len(wk_lines) : wk_lines[i].hdr # h
    /\ \A h \in LinesOfKind({"header"}) :
           ManualEntriesOf(HeaderKey(h)) # <<>> =>
               \A w \in WarningsOfKind("unresolved") : wk_warnings[w].ico # Ico(HeaderKey(h))

\* the registry has no owner for the root, a manual entry gives it one, and
\* that owner has none: the only unresolved warning is the owner's
C23_Witness ==
    /\ WalkDone
    /\ RegistryOwnersOf("A") = <<>> /\ ManualEntriesOf("A") # <<>>
    /\ \E h \in Ownerless : HeaderKey(h) = "C" /\ wk_lines[h].depth = 3
    /\ Cardinality(WarningsOfKind("unresolved")) = 1
    /\ OwnerIdx(1) # {}


\* line i belongs to the company of header h, written before it, and
\* everything between the two lies deeper than the header: the company's
\* lines and the subtrees of its company owners follow its header
Under(i, h) ==
    /\ h \in LinesOfKind({"header"}) /\ h < i
    /\ \A j \in (h + 1)..(i - 1) : wk_lines[j].depth > wk_lines[h].depth
\* the label line that opens the group of owner line i
GroupLabel(i) ==
    CHOOSE l \in LinesOfKind({"label"}) :
        /\ l < i /\ wk_lines[l].hdr = wk_lines[i].hdr
        /\ \A k \in LinesOfKind({"label"}) : (k < i /\ wk_lines[k].hdr = wk_lines[i].hdr) => k <= l
StrideOfLine(i) ==
    CASE wk_lines[i].kind = "label" ->
             /\ Under(i, wk_lines[i].hdr)
             /\ wk_lines[i].depth = wk_lines[wk_lines[i].hdr].depth + 1
      [] wk_lines[i].kind \in {"company", "person"} ->
             /\ Under(i, wk_lines[i].hdr)
             /\ wk_lines[i].depth = wk_lines[wk_lines[i].hdr].depth + 2
             /\ \E l \in LinesOfKind({"label"}) : l < i /\ wk_lines[l].hdr = wk_lines[i].hdr
             /\ wk_lines[GroupLabel(i)].label = wk_lines[i].label
             /\ (wk_lines[i].kind = "company" /\ i < Len(wk_lines)) =>
                    /\ wk_lines[i + 1].kind \in {"header", "error", "truncated"}
                    /\ wk_lines[i + 1].via = i
                    /\ wk_lines[i + 1].depth = wk_lines[wk_lines[i].hdr].depth + 3
      [] OTHER ->
             /\ wk_lines[i].via = 0 <=> i = 1
             /\ wk_lines[i].via = 0 => wk_lines[i].depth = 0
             /\ wk_lines[i].via # 0 => wk_lines[i].via = i - 1 /\ wk_lines[i - 1].kind = "company"
             /\ wk_lines[i].kind = "header" =>
                    wk_lines[i].effective_pct = IF wk_lines[i].depth = 0 THEN Some(RHundred) ELSE None

\* C24: the trace is a pre-order walk with a fixed depth stride: a company
\* header at depth d, its label lines at d + 1, each before the owner lines
\* of that label, its owner lines at d + 2, and the header (or the warning
\* or truncation line) of a company owner's subtree at d + 3 right after
\* that owner's line; the root header has depth 0 and effective_pct 100,
\* every other company header has effective_pct null.
C24_PreOrderFixedStride ==
    /\ \A i \in 1..Len(wk_lines) : StrideOfLine(i)
    /\ WalkDone => \A i \in LinesOfKind({"company"}) : i < Len(wk_lines)

\* headers at depths 0, 3 and 6, two groups under the root, and an owner
\* line of the root written after the subtree of an earlier owner
C24_Witness ==
    /\ WalkDone
    /\ \E h3, h6 \in LinesOfKind({"header"}) :
           /\ wk_lines[h3].depth = 3 /\ wk_lines[h6].depth = 6
           /\ wk_lines[h6].via > h3
           /\ \E i \in OwnerIdx(1) : i > h6
    /\ Cardinality({l \in LinesOfKind({"label"}) : wk_lines[l].hdr = 1}) = 2


\* C29 as stated: every key of the map compute_effective_persons returns
\* for a trace of resolve_tree_online is the display name of an owner of
\* kind PERSON: company owners, the warning lines of companies that could
\* not be loaded and the truncation lines create no person record.
C29_Original ==
    IsSome(wk_persons) =>
        \A i \in 1..Len(Persons) :
            \E l \in LinesOfKind({"person"}) : OwnerNameOf(wk_lines[l].text) = Persons[i].name


(***************************************************************************)
(* Claims about the ownership graph, checked under SpecGraph.              *)
(***************************************************************************)
Graph == The(gv_graph)
\* the id in the header text of line h
HeaderId(h) == wk_lines[h].text[Len(wk_lines[h].text) - 1].n
\* the node an owner line stands for: the company it names, or the person
\* of that line under its company
OwnerNode(i) ==
    IF wk_lines[i].kind = "company"
    THEN CompanyNode(wk_lines[i].text[Len(wk_lines[i].text) - 1].n)
    ELSE PersonNode(HeaderId(wk_lines[i].hdr), i - 1, Strip(wk_lines[i].text))
\* the nodes made for line i as a person
PersonNodesOf(i) == {n \in Graph.nodes : n.t = "P" /\ n.idx = i - 1}

\* C26 as stated: every owner line gives an edge from the node of its
\* enclosing company header to the owner's node; a label line gives no
\* node and no edge; company nodes are keyed by the registry id; no
\* self-edge is recorded, not even for a company that owns itself.
C26_Original ==
    IsSome(gv_graph) =>
        /\ \A i \in LinesOfKind({"company", "person"}) :
               CompanyNode(HeaderId(wk_lines[i].hdr)) # OwnerNode(i) =>
                   <<CompanyNode(HeaderId(wk_lines[i].hdr)), OwnerNode(i)>> \in Graph.edges
        /\ \A l \in LinesOfKind({"label"}) :
               /\ PersonNodesOf(l) = {}
               /\ \A e \in Graph.edges : e[2].t = "P" => e[2].idx # l - 1
        /\ \A n, m \in Graph.nodes : (n.t = "ICO" /\ m.t = "ICO" /\ n.id = m.id) => n = m
        /\ \A e \in Graph.edges : e[1] # e[2]


(***************************************************************************)
(* Claims about the resolver against a registry that fails, checked under  *)
(* SpecWalkDown.                                                           *)
(***************************************************************************)
\* resolve_tree_online was left by the exception of a failed get_vr
WalkAborted == wk_stack # <<>> /\ wk_stack[1].f = "raised"

\* C22 as stated: a get_vr that fails after its retries during a walk is
\* fatal for the subtree of that company only: the walk goes on with the
\* remaining owners and resolve_tree_online still returns the trace and the
\* warnings.  So no such failure makes resolve_tree_online leave without
\* returning.
C22_Original == ~WalkAborted


\* the lookup of a manual owner's name gives no name: get_vr raises or
\* returns an error-record
LookupFails(e) == RegistryAnswer(wk_world, norm_ico(e.owner_ico)).code # "200"
FallbackName(e) == <<Tok("Spolecnost")>> \o IcoSuffix(ZFill(e.owner_ico, 8))
\* owner line i starts with `name', followed by the dash
NameShown(i, name) == SubSeq(wk_lines[i].text, 1, Len(name) + Len(Dash)) = name \o Dash
ManualLines == {i \in LinesOfKind({"company"}) : wk_lines[i].label = "Manualne doplneno"}
\* C28 as stated: the display name of a manual owner comes from one get_vr
\* call that tolerates failure: when the lookup gives no real name, because
\* the call raises or returns an error-record, the owner's line shows the
\* fallback "Spolecnost (ICO <8-digit id>)", otherwise the registry's name.
C28_Original ==
    \A i \in ManualLines :
        \A k \in 1..Len(ManualEntriesOf(HeaderKey(wk_lines[i].hdr))) :
            LET e == ManualEntriesOf(HeaderKey(wk_lines[i].hdr))[k]
            IN  NameShown(i, IF LookupFails(e) THEN FallbackName(e)
                             ELSE CompanyNameOf(KeyOf(norm_ico(e.owner_ico))))


(***************************************************************************)
(* Claims about the comparison of names, checked under SpecNames.          *)
(***************************************************************************)
\* the person a name stands for: its given name and surname, whatever
\* the titles, the case, the diacritics and the white space
PersonWords == {"jan", "novak", "petr", "dvorak", "eva", "mala"}
PersonOf(name) ==
    LET ws == SelectSeq(name, LAMBDA tok : tok.k = "w" /\ tok.base \in PersonWords)
    IN  [i \in 1..Len(ws) |-> ws[i].base]
\* the names of one list whose person the other list does not hold
Unmatched(names, others) ==
    {names[i] : i \in {i \in 1..Len(names) :
                          \A j \in 1..Len(others) : PersonOf(others[j]) # PersonOf(names[i])}}
Missing == The(nm_out).missing_in_esm
Extra == The(nm_out).extra_in_esm

\* C20 as stated: names that differ only in diacritics, case, white space
\* and listed academic titles (prefix or suffix, with or without the
\* period, in any order) count as the same name, so neither is reported;
\* a name is reported missing or extra exactly when the other side holds
\* no name of that person.
C20_Original ==
    IsSome(nm_out) =>
        /\ Missing = Unmatched(nm_ours, nm_esm)
        /\ Extra = Unmatched(nm_esm, nm_ours)

(***************************************************************************)
(* Claims about the UBO form, checked under SpecForm.                      *)
(***************************************************************************)
\* final_persons is composed
Composed == ub_pc \in {"loop", "block", "done"}
\* registry person r is not replaced by a person added by hand with its name
NotShadowed(r) == \A k \in 1..Len(ub_form.manual) : ub_form.manual[k].name # r.name
ThresholdShare == Rat(ub_form.threshold_pct, 10000)

\* C25 as stated: final_persons holds every registry person and every
\* manual person; a registry person's cap and vote are the override where
\* one was supplied and otherwise exactly the aggregated ownership and
\* voting of the trace, so a person whose aggregated share is strictly
\* above the threshold, with no override, is evaluated with a cap strictly
\* above the threshold; a manual person carries what was entered.
C25_Original ==
    Composed =>
        /\ \A i \in 1..Len(ub_form.registry) : DictHas(ub_final, ub_form.registry[i].name)
        /\ \A k \in 1..Len(ub_form.manual) :
               DictGet(ub_final, ub_form.manual[k].name, <<>>) = FinalVals(ub_form.manual[k])
        /\ \A i \in 1..Len(ub_form.registry) :
               LET r == ub_form.registry[i]
                   vals == DictGet(ub_final, r.name, <<>>)
               IN  NotShadowed(r) =>
                       /\ IsSome(r.cap_override) => vals.cap = ShareOfBox(The(r.cap_override))
                       /\ IsSome(r.vote_override) => vals.vote = ShareOfBox(The(r.vote_override))
                       /\ (IsNone(r.cap_override) /\ RLt(ThresholdShare, r.ownership)) =>
                              FGt(vals.cap, thr(ub_form))
                       /\ (IsNone(r.vote_override) /\ RLt(ThresholdShare, r.voting)) =>
                              FGt(vals.vote, thr(ub_form))


(***************************************************************************)
(* Claims about the UBO determination, checked under SpecUbo.  The claims  *)
(* speak of the percentages the user entered; they are read in exact       *)
(* arithmetic, in hundredths of a percent.                                 *)
(***************************************************************************)
Evaluated == ub_pc = "done"
T == ub_form.threshold_pct
Entered == ub_form.persons
BlockMembers == Range(ub_form.block_members)
\* the summed voting of the declared block, as entered
BlockVotePct ==
    LET ms == SelectSeq(Entered, LAMBDA p : p.name \in BlockMembers)
    IN  SeqSumNat([i \in 1..Len(ms) |-> ms[i].vote_pct])
\* the criteria of person p other than the voting block
OwnCriteria(p) ==
    {c \in {"cap", "vote", "veto", "org_majority", "substitute_ubo"} :
        \/ c = "cap" /\ p.cap_pct > T
        \/ c = "vote" /\ p.vote_pct > T
        \/ c = "veto" /\ p.veto
        \/ c = "org_majority" /\ p.org_majority
        \/ c = "substitute_ubo" /\ p.substitute_ubo}
Criteria(p) ==
    OwnCriteria(p) \cup (IF p.name \in BlockMembers /\ BlockVotePct > T THEN {"block"} ELSE {})
ReasonsOf(name) == DictGet(ub_reasons, name, <<>>)
UboEntries(name) == {i \in 1..Len(ub_ubo) : ub_ubo[i].k = name}

\* C3 as stated: after the evaluation a person is a UBO if and only if its
\* capital is > T, or its voting is > T, or it holds a veto, or it appoints
\* the majority of the body, or it is the substitute UBO, or it is a member
\* of the declared voting block whose summed voting is > T; all comparisons
\* are strict; every UBO has a non-empty list of reasons holding exactly one
\* reason per criterion it satisfies.
C3_Original ==
    Evaluated =>
        \A i \in 1..Len(Entered) :
            LET p == Entered[i]
            IN  /\ DictHas(ub_ubo, p.name) <=> Criteria(p) # {}
                /\ DictHas(ub_ubo, p.name) =>
                       /\ ReasonsOf(p.name) # <<>>
                       /\ Range(ReasonsOf(p.name)) = Criteria(p)
                       /\ Len(ReasonsOf(p.name)) = Cardinality(Criteria(p))

\* C4 as stated: when the votes of the declared block sum to strictly more
\* than T, every block member among the final persons is a UBO and carries
\* the block reason; when they sum to exactly T no member is promoted on
\* account of the block; a member that is a UBO on another criterion as well
\* has one entry and both reasons.
C4_Original ==
    Evaluated =>
        /\ BlockVotePct > T =>
               \A n \in BlockMembers :
                   /\ Cardinality(UboEntries(n)) = 1
                   /\ "block" \in Range(ReasonsOf(n))
        /\ BlockVotePct = T =>
               \A i \in 1..Len(Entered) :
                   /\ "block" \notin Range(ReasonsOf(Entered[i].name))
                   /\ DictHas(ub_ubo, Entered[i].name) => OwnCriteria(Entered[i]) # {}
        /\ \A i \in 1..Len(Entered) :
               (Entered[i].name \in BlockMembers /\ BlockVotePct > T
                    /\ OwnCriteria(Entered[i]) # {}) =>
                   /\ Cardinality(UboEntries(Entered[i].name)) = 1
                   /\ OwnCriteria(Entered[i]) \cup {"block"} = Range(ReasonsOf(Entered[i].name))

=============================================================================
